---- MODULE Spec2Model ----
(***************************************************************************)
(* Model of the droplet erosion engine (ErosionSimulator), the worker that *)
(* owns one engine (erosionWorker.js) and the promise-based coordinator    *)
(* in front of it (ErosionWorkerService).                                  *)
(*                                                                         *)
(* Numbers.  JavaScript numbers are modelled as fixed-point integers with  *)
(* six decimal digits: the integer n stands for n / Unit.  Products and    *)
(* quotients are truncated toward zero, square roots are rounded down.     *)
(* Grid coordinates, droplet lifetimes and counts are plain integers.      *)
(* An amount below one millionth is 0 here; added to a Float32 height of   *)
(* order 1 such an amount leaves the stored height as it was.              *)
(***************************************************************************)
EXTENDS Integers, Sequences, FiniteSets, TLC

VARIABLES
  simulator,   \* worker: the module-level `simulator` (NoSimulator = null)
  toWorker,    \* messages posted to the worker, not yet handled
  toMain,      \* messages posted by the worker, not yet dispatched
  calls,       \* coordinator: one record per promise returned by a method
  listeners,   \* coordinator: indices of calls whose message handler is registered
  buffers,     \* height-field buffers by identity: data and which side holds them
  engineBuf,   \* identity of the buffer behind simulator.heightMap (0 = none)
  lastCall,    \* engine driven directly: the last method called and how it ended
  app          \* App: erosionRunning, the refs and the position of the batching loop

vars == <<simulator, toWorker, toMain, calls, listeners, buffers, engineBuf, lastCall, app>>

----------------------------------------------------------------------------
(* Fixed-point arithmetic *)

\* The fixed-point representation of 1.0.
Unit == 1000000

Abs(a) == IF a < 0 THEN -a ELSE a
Sign(a) == IF a < 0 THEN -1 ELSE 1
Min(a, b) == IF a < b THEN a ELSE b
Max(a, b) == IF a > b THEN a ELSE b

\* A function on 1..n as an explicit sequence (the same value, enumerated).
AsSeq(f) == SubSeq(f, 1, Len(f))

\* |a| * |b| / Unit without leaving 32 bits: both factors split at 10^3.
MulAbs(a, b) ==
  LET ah == a \div 1000
      al == a % 1000
      bh == b \div 1000
      bl == b % 1000
      t  == ah * bl + al * bh
  IN  ah * bh + t \div 1000 + ((t % 1000) * 1000 + al * bl) \div 1000000

\* a * b
Mul(a, b) == Sign(a) * Sign(b) * MulAbs(Abs(a), Abs(b))

RECURSIVE DivDigits(_, _, _, _)
DivDigits(r, b, q, n) ==
  IF n = 0 THEN q
  ELSE DivDigits((r * 10) % b, b, q * 10 + (r * 10) \div b, n - 1)

\* a / b by long division, six decimal digits.  Also maps two plain
\* integers to the fixed-point value of their quotient.
Div(a, b) == Sign(a) * Sign(b) * DivDigits(Abs(a) % Abs(b), Abs(b), Abs(a) \div Abs(b), 6)

RECURSIVE ISqrtIter(_, _, _)
ISqrtIter(n, lo, hi) ==
  IF lo >= hi THEN lo
  ELSE LET mid == (lo + hi + 1) \div 2
       IN  IF mid * mid <= n THEN ISqrtIter(n, mid, hi) ELSE ISqrtIter(n, lo, mid - 1)

\* floor(sqrt(n)) of a plain integer
ISqrt(n) == ISqrtIter(n, 0, IF n < 46340 THEN n ELSE 46340)

\* Math.sqrt: a first estimate from the integer root of the value scaled
\* as far as 32 bits allow, then two Newton steps.
SqrtScale(a) ==
  IF a < 2147 THEN 1000 ELSE IF a < 214748 THEN 100 ELSE IF a < 21474836 THEN 10 ELSE 1

SqrtEstimate(a) == ISqrt(a * SqrtScale(a) * SqrtScale(a)) * (1000 \div SqrtScale(a))

Newton(a, r) == IF r <= 0 THEN 1 ELSE (r + Div(a, r)) \div 2

Sqrt(a) ==
  IF a <= 0 THEN 0
  ELSE IF a < 2147 THEN SqrtEstimate(a)
  ELSE Newton(a, Newton(a, SqrtEstimate(a)))

\* Math.sqrt(a * a + b * b); exact in the raw units while the squares fit.
Hypot(a, b) ==
  IF Abs(a) <= 32767 /\ Abs(b) <= 32767 THEN ISqrt(a * a + b * b)
  ELSE Sqrt(Mul(a, a) + Mul(b, b))

\* Math.sqrt(Math.max(0, s * s + t)); exact in the raw units for small s, t.
SqrtSquarePlus(s, t) ==
  IF Abs(s) <= 32767 /\ Abs(t) <= 1000
  THEN ISqrt(Max(0, s * s + t * 1000000))
  ELSE Sqrt(Max(0, Mul(s, s) + t))

\* Math.floor of a fixed-point value, as a plain integer
Floor(a) == a \div Unit

\* Math.pow(x, 1.5) and Math.pow(x, -0.5)
Pow15(x) == Mul(x, Sqrt(x))
PowNegHalf(x) == Div(Unit, Sqrt(x))

\* tan(d degrees) for d = 1..89
TanDeg ==
  << 17455, 34920, 52407, 69926, 87488, 105104, 122784, 140540,
     158384, 176326, 194380, 212556, 230868, 249328, 267949, 286745,
     305730, 324919, 344327, 363970, 383864, 404026, 424474, 445228,
     466307, 487732, 509525, 531709, 554309, 577350, 600860, 624869,
     649407, 674508, 700207, 726542, 753554, 781285, 809784, 839099,
     869286, 900404, 932515, 965688, 999999, 1035530, 1072368, 1110612,
     1150368, 1191753, 1234897, 1279941, 1327044, 1376381, 1428148, 1482560,
     1539864, 1600334, 1664279, 1732050, 1804047, 1880726, 1962610, 2050303,
     2144506, 2246036, 2355852, 2475086, 2605089, 2747477, 2904210, 3077683,
     3270852, 3487414, 3732050, 4010780, 4331475, 4704630, 5144554, 5671281,
     6313751, 7115369, 8144346, 9514364, 11430052, 14300666, 19081136, 28636253,
     57289961 >>


\* Math.atan(g) * (180 / Math.PI), to whole degrees
AtanDeg(g) == Cardinality({d \in 1..89 : TanDeg[d] <= g}) * Unit

----------------------------------------------------------------------------
(* Noise field (constructor's permutation table, _noise2D, _fade, _lerp, _grad) *)

permutation ==
  << 151, 160, 137, 91, 90, 15, 131, 13, 201, 95, 96, 53, 194, 233, 7, 225,
     140, 36, 103, 30, 69, 142, 8, 99, 37, 240, 21, 10, 23, 190, 6, 148,
     247, 120, 234, 75, 0, 26, 197, 62, 94, 252, 219, 203, 117, 35, 11, 32,
     57, 177, 33, 88, 237, 149, 56, 87, 174, 20, 125, 136, 171, 168, 68, 175,
     74, 165, 71, 134, 139, 48, 27, 166, 77, 146, 158, 231, 83, 111, 229, 122,
     60, 211, 133, 230, 220, 105, 92, 41, 55, 46, 245, 40, 244, 102, 143, 54,
     65, 25, 63, 161, 1, 216, 80, 73, 209, 76, 132, 187, 208, 89, 18, 169,
     200, 196, 135, 130, 116, 188, 159, 86, 164, 100, 109, 198, 173, 186, 3, 64,
     52, 217, 226, 250, 124, 123, 5, 202, 38, 147, 118, 126, 255, 82, 85, 212,
     207, 206, 59, 227, 47, 16, 58, 17, 182, 189, 28, 42, 223, 183, 170, 213,
     119, 248, 152, 2, 44, 154, 163, 70, 221, 153, 101, 155, 167, 43, 172, 9,
     129, 22, 39, 253, 19, 98, 108, 110, 79, 113, 224, 232, 178, 185, 112, 104,
     218, 246, 97, 228, 251, 34, 242, 193, 238, 210, 144, 12, 191, 179, 162, 241,
     81, 51, 145, 235, 249, 14, 239, 107, 49, 192, 214, 31, 181, 199, 106, 157,
     184, 84, 204, 176, 115, 121, 50, 45, 127, 4, 150, 254, 138, 236, 205, 93,
     222, 114, 67, 29, 24, 72, 243, 141, 128, 195, 78, 66, 215, 61, 156, 180 >>

\* this._p[i] for 0 <= i < 512
P(i) == permutation[(i % 256) + 1]

\* _fade(t) = t * t * t * (t * (t * 6 - 15) + 10)
Fade(t) == Mul(Mul(Mul(t, t), t), Mul(t, Mul(t, 6 * Unit) - 15 * Unit) + 10 * Unit)

\* _lerp(t, a, b) = a + t * (b - a)
Lerp(t, a, b) == a + Mul(t, b - a)

\* _grad(hash, x, y)
Grad(hash, x, y) ==
  LET h     == hash % 16
      gradX == 1 + (h % 8)
      gradY == 1 + (h \div 16)
      neg   == (h \div 8) % 2 = 1
  IN  (IF neg THEN -gradX ELSE gradX) * x + (IF neg THEN -gradY ELSE gradY) * y

\* _noise2D(x, y)
Noise2D(x, y) ==
  LET X  == Floor(x) % 256
      Y  == Floor(y) % 256
      fx == x - Floor(x) * Unit
      fy == y - Floor(y) * Unit
      u  == Fade(fx)
      v  == Fade(fy)
      A  == P(X) + Y
      B  == P(X + 1) + Y
  IN  Lerp(v,
           Lerp(u, Grad(P(A), fx, fy), Grad(P(B), fx - Unit, fy)),
           Lerp(u, Grad(P(A + 1), fx, fy - Unit), Grad(P(B + 1), fx - Unit, fy - Unit)))

RECURSIVE Octaves(_, _, _, _, _)
\* the four-octave sum of _initializeMicroDetailNoise
Octaves(nx, ny, amplitude, frequency, i) ==
  IF i = 4 THEN 0
  ELSE Mul(Noise2D(nx * frequency, ny * frequency), amplitude)
       + Octaves(nx, ny, Mul(amplitude, 500000), frequency * 2, i + 1)

----------------------------------------------------------------------------
(* ErosionSimulator: parameters and construction *)

\* Object.assign(target, overlay): overlay's fields win
Assign(target, overlay) ==
  [k \in DOMAIN target \cup DOMAIN overlay |->
     IF k \in DOMAIN overlay THEN overlay[k] ELSE target[k]]

\* resolutionFactor = Math.sqrt((width * height) / (500 * 500))
ResolutionFactor(width, height) == Sqrt(Div(width * height, 500 * 500))

\* The constructor's scaledParams for resolution factor rf, given
\* negHalf = Math.pow(rf, -0.5) and root = Math.sqrt(rf).  sedimentSizes
\* keeps each grain class's capacity, in the order veryFine, fine, medium,
\* coarse, veryCoarse.
ScaledWith(rf, negHalf, root) ==
  [ inertia                |-> Mul(10000, negHalf),
    friction               |-> Mul(5000, negHalf),
    sedimentCapacityFactor |-> Mul(Unit, rf),
    depositionRate         |-> Mul(80000, rf),
    evaporationRate        |-> Mul(2000, negHalf),
    minVolume              |-> Mul(1000, Div(Unit, rf)),
    initialVolume          |-> Mul(200000, rf),
    initialSpeed           |-> Mul(200000, root),
    maxDropletLifetime     |-> Floor(Mul(120 * Unit, root)),
    useMultiScale          |-> TRUE,
    scales                 |-> << Mul(1000000, rf), Mul(500000, rf), Mul(250000, rf),
                                  Mul(125000, rf), Mul(62500, rf) >>,
    scaleWeights           |-> << 300000, 250000, 200000, 150000, 100000 >>,
    useSedimentSizes       |-> TRUE,
    sedimentSizes          |-> << 1000000, 800000, 600000, 400000, 200000 >>,
    useFlowAccumulation    |-> TRUE,
    flowAccumulationFactor |-> Mul(50000, rf),
    useTemperature         |-> TRUE,
    temperature            |-> 20 * Unit,
    viscosityFactor        |-> Mul(10000, negHalf),
    useMicroDetails        |-> TRUE,
    microDetailScale       |-> Mul(10000, rf),
    microDetailStrength    |-> Mul(100000, rf),
    useTalusFormation      |-> TRUE,
    talusFormationRate     |-> Mul(150000, rf),
    talusStabilityFactor   |-> 800000,
    talusErosionRate       |-> Mul(50000, rf),
    talusDepositionRate    |-> Mul(100000, rf),
    talusMaxHeight         |-> Mul(500000, rf),
    talusMinSlope          |-> 25 * Unit,
    talusMaxSlope          |-> 45 * Unit ]

ScaledBy(rf) == ScaledWith(rf, PowNegHalf(rf), Sqrt(rf))

ScaledParams(width, height) == ScaledBy(ResolutionFactor(width, height))

\* new Float32Array(width * height): all zero
ZeroMap(width, height) == AsSeq([i \in 1..(width * height) |-> 0])

\* toIndex(x, y) = y * width + x, shifted to TLA+'s 1-based sequences
ToIndex(width, x, y) == y * width + x + 1

\* _initializeMicroDetailNoise: the whole map
InitializeMicroDetailNoise(width, height, params) ==
  AsSeq([i \in 1..(width * height) |->
     LET x == (i - 1) % width
         y == (i - 1) \div width
     IN  Mul(Octaves(x * params.microDetailScale, y * params.microDetailScale, Unit, 1, 0),
             params.microDetailStrength)])

\* _computeSlopeMap: interior cells get the slope angle, the others keep
\* what slopeMap held
ComputeSlopeMap(width, height, heightMap, slopeMap) ==
  AsSeq([i \in 1..(width * height) |->
     LET x == (i - 1) % width
         y == (i - 1) \div width
     IN  IF x >= 1 /\ x < width - 1 /\ y >= 1 /\ y < height - 1
         THEN LET dx == (heightMap[i + 1] - heightMap[i - 1]) \div 2
                  dy == (heightMap[i + width] - heightMap[i - width]) \div 2
              IN  AtanDeg(Hypot(dx, dy))
         ELSE slopeMap[i]])

\* The simulator variable of the worker before any engine was constructed.
NoSimulator == [null |-> TRUE]

\* The fields the constructor sets, once this.params is known: this.droplets
\* and this.dropletsActive are not among them.
Allocate(width, height, heightMap, params) ==
  [ null             |-> FALSE,
    width            |-> width,
    height           |-> height,
    heightMap        |-> heightMap,
    params           |-> params,
    hasDroplets      |-> FALSE,
    droplets         |-> << >>,
    dropletsActive   |-> "undefined",
    flowMap          |-> IF params.useFlowAccumulation THEN ZeroMap(width, height) ELSE << >>,
    microDetailMap   |-> IF params.useMultiScale THEN ZeroMap(width, height) ELSE << >>,
    microDetailNoise |-> IF params.useMicroDetails
                         THEN InitializeMicroDetailNoise(width, height, params)
                         ELSE << >>,
    talusMap         |-> IF params.useTalusFormation THEN ZeroMap(width, height) ELSE << >>,
    slopeMap         |-> IF params.useTalusFormation
                         THEN ComputeSlopeMap(width, height, heightMap, ZeroMap(width, height))
                         ELSE << >> ]

\* new ErosionSimulator(width, height, heightMap, params)
Constructor(width, height, heightMap, overlay) ==
  Allocate(width, height, heightMap, Assign(ScaledParams(width, height), overlay))

\* _calculateInitialSedimentDistribution; r holds the five Math.random() draws
CalculateInitialSedimentDistribution(r) ==
  << Mul(r[1], 300000) + 400000,
     Mul(r[2], 200000) + 200000,
     Mul(r[3], 150000) + 100000,
     Mul(r[4], 100000) + 50000,
     Mul(r[5], 50000) + 20000 >>

\* _createDroplet; rnd = [x, y, dist] holds the Math.random() draws
CreateDroplet(sim, rnd) ==
  [ x        |-> rnd.x * (sim.width - 2) + Unit,
    y        |-> rnd.y * (sim.height - 2) + Unit,
    dx       |-> 0,
    dy       |-> 0,
    speed    |-> sim.params.initialSpeed,
    water    |-> sim.params.initialVolume,
    sediment |-> 0,
    lifetime |-> 0,
    alive    |-> TRUE,
    sedimentDistribution |->
      IF sim.params.useSedimentSizes
      THEN CalculateInitialSedimentDistribution(rnd.dist) ELSE << >> ]

\* Array(n).fill().map(() => this._createDroplet()); rnds are the draws
CreatePool(sim, rnds) == AsSeq([i \in 1..Len(rnds) |-> CreateDroplet(sim, rnds[i])])

\* simulator.droplets = Array(numDroplets).fill().map(...)
WithPool(engine, rnds) ==
  [engine EXCEPT !.hasDroplets = TRUE, !.droplets = CreatePool(engine, rnds)]

----------------------------------------------------------------------------
(* ErosionSimulator: sampling and bilinear updates *)

\* _bilinearInterp(heightMap, x, y)
BilinearInterp(width, height, heightMap, x, y) ==
  LET cellX == Floor(x)
      cellY == Floor(y)
      offX  == x - cellX * Unit
      offY  == y - cellY * Unit
  IN  IF cellX < 0 \/ cellY < 0 \/ cellX >= width - 1 \/ cellY >= height - 1
      THEN 0
      ELSE LET h00 == heightMap[ToIndex(width, cellX, cellY)]
               h10 == heightMap[ToIndex(width, cellX + 1, cellY)]
               h01 == heightMap[ToIndex(width, cellX, cellY + 1)]
               h11 == heightMap[ToIndex(width, cellX + 1, cellY + 1)]
           IN  Mul(Mul(h00, Unit - offX), Unit - offY) + Mul(Mul(h10, offX), Unit - offY)
               + Mul(Mul(h01, Unit - offX), offY) + Mul(Mul(h11, offX), offY)

\* _calcGradient(heightMap, x, y)
CalcGradient(width, height, heightMap, x, y) ==
  LET cellX == Floor(x)
      cellY == Floor(y)
  IN  IF cellX < 1 \/ cellY < 1 \/ cellX >= width - 2 \/ cellY >= height - 2
      THEN [gx |-> 0, gy |-> 0]
      ELSE LET hL == BilinearInterp(width, height, heightMap, x - Unit, y)
               hR == BilinearInterp(width, height, heightMap, x + Unit, y)
               hD == BilinearInterp(width, height, heightMap, x, y - Unit)
               hU == BilinearInterp(width, height, heightMap, x, y + Unit)
           IN  [gx |-> Mul(hR - hL, 500000), gy |-> Mul(hU - hD, 500000)]

\* _calculateViscosity(temperature, water)
CalculateViscosity(params, temperature, water) ==
  IF ~params.useTemperature THEN Unit
  ELSE LET baseViscosity == Div(Unit, Unit + Mul(temperature, params.viscosityFactor))
       IN  Mul(baseViscosity, Unit - Mul(water, 100000))

\* The guard of _bilinearAdd: the four corners exist.
InCell(width, height, x, y) == x >= 0 /\ y >= 0 /\ x < width - 1 /\ y < height - 1

\* _bilinearAdd(heightMap, x, y, offX, offY, value) on an allocated map: the
\* four weighted additions, then each of the four cells clamped to zero.
BilinearAdd(width, height, heightMap, x, y, offX, offY, value) ==
  LET w00 == Mul(Unit - offX, Unit - offY)
      w10 == Mul(offX, Unit - offY)
      w01 == Mul(Unit - offX, offY)
      w11 == Mul(offX, offY)
      i00 == ToIndex(width, x, y)
      i10 == ToIndex(width, x + 1, y)
      i01 == ToIndex(width, x, y + 1)
      i11 == ToIndex(width, x + 1, y + 1)
  IN  IF InCell(width, height, x, y)
      THEN [heightMap EXCEPT ![i00] = Max(0, @ + Mul(value, w00)),
                             ![i10] = Max(0, @ + Mul(value, w10)),
                             ![i01] = Max(0, @ + Mul(value, w01)),
                             ![i11] = Max(0, @ + Mul(value, w11))]
      ELSE heightMap

\* Stands for NaN in a map: the value of 0 / 0 and of every sum, product,
\* Math.min and Math.max it enters.  No height, slope or talus value is as
\* low; a comparison with NaN is false in the code.
NaN == -2000000000

\* A talus update that takes the sum for the new talus height, unclamped.
UnclampedTalus(sim, x, y, erosion, deposition) ==
  IF ~sim.params.useTalusFormation THEN sim
  ELSE IF sim.slopeMap[ToIndex(sim.width, Floor(x), Floor(y))] < sim.params.talusMinSlope THEN sim
  ELSE IF sim.slopeMap[ToIndex(sim.width, Floor(x), Floor(y))] > sim.params.talusMaxSlope THEN sim
  ELSE [sim EXCEPT !.talusMap[ToIndex(sim.width, Floor(x), Floor(y))] =
          @ + Mul(Mul(erosion, sim.params.talusErosionRate)
                  - Mul(deposition, sim.params.talusDepositionRate),
                  sim.params.talusFormationRate)]

\* A talus update in which deposition builds talus up and erosion takes it
\* away.
SwappedTalus(sim, x, y, erosion, deposition) ==
  IF ~sim.params.useTalusFormation THEN sim
  ELSE IF sim.slopeMap[ToIndex(sim.width, Floor(x), Floor(y))] < sim.params.talusMinSlope THEN sim
  ELSE IF sim.slopeMap[ToIndex(sim.width, Floor(x), Floor(y))] > sim.params.talusMaxSlope THEN sim
  ELSE [sim EXCEPT !.talusMap[ToIndex(sim.width, Floor(x), Floor(y))] =
          Max(0, Min(@ + Mul(Mul(deposition, sim.params.talusDepositionRate)
                             - Mul(erosion, sim.params.talusErosionRate),
                             sim.params.talusFormationRate),
                     sim.params.talusMaxHeight))]

\* _updateTalusFormation(x, y, erosion, deposition), as the new engine state;
\* with talusMinSlope = talusMaxSlope the factor is 0 / 0.
UpdateTalusFormation(sim, x, y, erosion, deposition) ==
  IF ~sim.params.useTalusFormation THEN sim
  ELSE LET p     == sim.params
           idx   == ToIndex(sim.width, Floor(x), Floor(y))
           slope == sim.slopeMap[idx]
       IN  IF slope >= p.talusMinSlope /\ slope <= p.talusMaxSlope
           THEN IF p.talusMaxSlope = p.talusMinSlope
                THEN [sim EXCEPT !.talusMap[idx] = NaN, !.heightMap[idx] = NaN]
                ELSE
                LET talusFactor == Div(slope - p.talusMinSlope, p.talusMaxSlope - p.talusMinSlope)
                    talusChange == Mul(Mul(Mul(erosion, p.talusErosionRate)
                                           - Mul(deposition, p.talusDepositionRate),
                                           talusFactor), p.talusFormationRate)
                    talus       == Max(0, Min(sim.talusMap[idx] + talusChange, p.talusMaxHeight))
                IN  [sim EXCEPT !.talusMap[idx] = talus,
                                !.heightMap[idx] = @ + Mul(talus, p.talusStabilityFactor)]
           ELSE sim

----------------------------------------------------------------------------
(* ErosionSimulator.stepDroplets *)

\* resolutionScale, erosionScale and dropletMultiplier of stepDroplets
ResolutionScale(sim) == Sqrt(Div(sim.width * sim.height, 500 * 500))
ErosionScaleOf(resolutionScale) ==
  Mul(Sqrt(Div(Unit, resolutionScale)), Min(resolutionScale, 3 * Unit))
ErosionScale(sim) == ErosionScaleOf(ResolutionScale(sim))
DropletMultiplier(sim) == Min(ResolutionScale(sim), 2 * Unit)

\* A sub-step loop that never runs its body.
NoPasses(m) == 0

\* A sub-step loop that runs floor(m) times, and once at least.
FloorPasses(m) == Max(1, m \div Unit)

\* How often `for (let step = 0; step < m; step++)` runs its body.
Passes(m) == IF m <= 0 THEN 0 ELSE (m + Unit - 1) \div Unit
SubStepCount(sim) == Passes(DropletMultiplier(sim))

\* The locals of one pass of the sub-step loop for droplet i (lines 290-417)
\* at its start: d is the droplet being changed in place, h the height under
\* it, newH, capacity and amount are filled in by the later statements.
\* amount is the height added at the old cell: the deposit, or minus erode.
Locals(sim, i, erosionScale) ==
  [ sim          |-> sim,
    i            |-> i,
    erosionScale |-> erosionScale,
    pow15        |-> Pow15(erosionScale),
    d            |-> sim.droplets[i],
    cellX        |-> Floor(sim.droplets[i].x),
    cellY        |-> Floor(sim.droplets[i].y),
    offX         |-> sim.droplets[i].x - Floor(sim.droplets[i].x) * Unit,
    offY         |-> sim.droplets[i].y - Floor(sim.droplets[i].y) * Unit,
    h            |-> BilinearInterp(sim.width, sim.height, sim.heightMap,
                                    sim.droplets[i].x, sim.droplets[i].y),
    grad         |-> CalcGradient(sim.width, sim.height, sim.heightMap,
                                  sim.droplets[i].x, sim.droplets[i].y),
    viscosity    |-> CalculateViscosity(sim.params, sim.params.temperature,
                                        sim.droplets[i].water),
    newH         |-> 0,
    capacity     |-> 0,
    deposits     |-> FALSE,
    amount       |-> 0,
    threw        |-> FALSE ]

\* lines 306-307: update velocity
UpdateVelocity(f) ==
  [f EXCEPT
     !.d.dx = Mul(Mul(@, f.sim.params.inertia), f.viscosity)
              - Mul(Mul(f.grad.gx, Unit - f.sim.params.inertia), f.erosionScale),
     !.d.dy = Mul(Mul(@, f.sim.params.inertia), f.viscosity)
              - Mul(Mul(f.grad.gy, Unit - f.sim.params.inertia), f.erosionScale)]

\* lines 310-314: normalize velocity
DivideBy(f, len) ==
  IF len # 0 THEN [f EXCEPT !.d.dx = Div(@, len), !.d.dy = Div(@, len)] ELSE f
Normalize(f) == DivideBy(f, Hypot(f.d.dx, f.d.dy))

\* lines 317-318: move droplet
Move(f) ==
  [f EXCEPT !.d.x = @ + Mul(f.d.dx, f.erosionScale),
            !.d.y = @ + Mul(f.d.dy, f.erosionScale)]

\* A grid no droplet leaves.
NeverOut(f) == FALSE

\* line 321: the droplet left the interior
OutOfBounds(f) ==
  \/ f.d.x < Unit
  \/ f.d.x > (f.sim.width - 2) * Unit
  \/ f.d.y < Unit
  \/ f.d.y > (f.sim.height - 2) * Unit

\* line 327: new height
NewHeight(f) ==
  [f EXCEPT !.newH = BilinearInterp(f.sim.width, f.sim.height, f.sim.heightMap, f.d.x, f.d.y)]

\* A droplet brought to rest.
SpeedZero(f) == [f EXCEPT !.d.speed = 0]

\* lines 331-332: update speed
UpdateSpeed(f) ==
  [f EXCEPT !.d.speed =
     Mul(SqrtSquarePlus(@, Mul(Mul(f.newH - f.h, -9810000), f.erosionScale)),
         Unit - f.sim.params.friction)]

RECURSIVE MultiScaleCapacity(_, _, _, _, _)
\* the useMultiScale loop over params.scales, from index i on
MultiScaleCapacity(p, deltaH, d, pow15, i) ==
  IF i > Len(p.scales) THEN 0
  ELSE Mul(Mul(Mul(Mul(Mul(Max(Mul(-deltaH, p.scales[i]), 1000), d.speed), d.water),
                   p.sedimentCapacityFactor), pow15),
           p.scaleWeights[i])
       + MultiScaleCapacity(p, deltaH, d, pow15, i + 1)

\* lines 335-350: base capacity
BaseCapacity(f) ==
  [f EXCEPT !.capacity =
     IF f.sim.params.useMultiScale
     THEN MultiScaleCapacity(f.sim.params, f.newH - f.h, f.d, f.pow15, 1)
     ELSE Mul(Mul(Mul(Mul(Max(-(f.newH - f.h), 1000), f.d.speed), f.d.water),
                  f.sim.params.sedimentCapacityFactor), f.pow15)]

RECURSIVE SizeAdjustedCapacity(_, _, _, _)
\* the useSedimentSizes loop over Object.entries(params.sedimentSizes)
SizeAdjustedCapacity(p, capacity, d, i) ==
  IF i > Len(p.sedimentSizes) THEN 0
  ELSE Mul(Mul(capacity, p.sedimentSizes[i]), d.sedimentDistribution[i])
       + SizeAdjustedCapacity(p, capacity, d, i + 1)

\* lines 353-359: sediment size distribution
SedimentSizes(f) ==
  IF f.sim.params.useSedimentSizes /\ f.d.sedimentDistribution # << >>
  THEN [f EXCEPT !.capacity = SizeAdjustedCapacity(f.sim.params, @, f.d, 1)]
  ELSE f

\* line 363: idx of the droplet's cell
DropletIndex(f) == ToIndex(f.sim.width, Floor(f.d.x), Floor(f.d.y))

\* A flow accumulation that takes the droplet's flux off the cell.
DrainFlow(f) ==
  IF f.sim.params.useFlowAccumulation
  THEN [f EXCEPT !.sim.flowMap[DropletIndex(f)] =
          @ - Mul(Mul(Mul(f.d.water, f.d.speed), f.sim.params.flowAccumulationFactor),
                  f.erosionScale)]
  ELSE f

\* line 364: flow accumulation
AccumulateFlow(f) ==
  IF f.sim.params.useFlowAccumulation
  THEN [f EXCEPT !.sim.flowMap[DropletIndex(f)] =
          @ + Mul(Mul(Mul(f.d.water, f.d.speed), f.sim.params.flowAccumulationFactor),
                  f.erosionScale)]
  ELSE f

\* lines 365-366: capacity scaled by the accumulated flow
FlowCapacity(f) ==
  IF f.sim.params.useFlowAccumulation
  THEN [f EXCEPT !.capacity =
          Mul(@, Unit + Mul(Div(f.sim.flowMap[DropletIndex(f)], 200 * Unit), f.erosionScale))]
  ELSE f

\* lines 370-372 and 388-389: deposit, or erode
Exchange(f) ==
  [f EXCEPT
     !.deposits = f.d.sediment > f.capacity,
     !.amount =
       IF f.d.sediment > f.capacity
       THEN Mul(Mul(f.d.sediment - f.capacity, f.sim.params.depositionRate), f.pow15)
       ELSE -Min(Mul(Mul(f.capacity - f.d.sediment, f.sim.params.depositionRate), f.pow15),
                 f.newH)]

\* lines 373 and 391: the exchange on the height field, at the old cell
ChangeHeight(f) ==
  [f EXCEPT !.sim.heightMap =
     BilinearAdd(f.sim.width, f.sim.height, @, f.cellX, f.cellY, f.offX, f.offY, f.amount)]

\* lines 377 and 395: talus, at the new position
Talus(f) ==
  [f EXCEPT !.sim =
     UpdateTalusFormation(@, f.d.x, f.d.y,
                          IF f.deposits THEN 0 ELSE -f.amount,
                          IF f.deposits THEN f.amount ELSE 0)]

\* lines 380-384 and 398-402: _bilinearAdd on this.microDetailMap.  The map
\* is undefined when useMultiScale is off, and its first cell access raises.
MicroDetail(f) ==
  IF ~f.sim.params.useMicroDetails THEN f
  ELSE IF f.sim.microDetailMap = << >>
  THEN [f EXCEPT !.threw = InCell(f.sim.width, f.sim.height, f.cellX, f.cellY)]
  ELSE [f EXCEPT !.sim.microDetailMap =
          BilinearAdd(f.sim.width, f.sim.height, @, f.cellX, f.cellY, f.offX, f.offY,
                      Mul(Mul(Mul(f.amount, 100000), f.erosionScale),
                          Unit + f.sim.microDetailNoise[DropletIndex(f)]))]

\* lines 386 and 404: the droplet's load
Carry(f) == IF f.threw THEN f ELSE [f EXCEPT !.d.sediment = @ - f.amount]

\* lines 370-406
DepositOrErode(f) ==
  IF f.deposits \/ f.amount < 0 THEN Carry(MicroDetail(Talus(ChangeHeight(f)))) ELSE f

\* lines 409-410: evaporate and age
Evaporate(f) ==
  IF f.threw THEN f
  ELSE [f EXCEPT
          !.d.water = Mul(@, Unit - Mul(f.sim.params.evaporationRate,
                                        PowNegHalf(f.erosionScale))),
          !.d.lifetime = @ + 1]

\* lines 413-417: kill
Kill(f) ==
  IF f.threw THEN f
  ELSE IF \/ f.d.water < f.sim.params.minVolume
          \/ f.d.lifetime > f.sim.params.maxDropletLifetime
          \/ f.d.speed < 10000
       THEN [f EXCEPT !.d.alive = FALSE]
       ELSE f

\* lines 321-417: the pass after the move
AfterMove(f) ==
  IF OutOfBounds(f) THEN [f EXCEPT !.d.alive = FALSE]
  ELSE Kill(Evaporate(DepositOrErode(Exchange(FlowCapacity(AccumulateFlow(
         SedimentSizes(BaseCapacity(UpdateSpeed(NewHeight(f))))))))))

\* The engine after the pass (d was changed in place) and whether it raised.
Outcome(f) == [sim |-> [f.sim EXCEPT !.droplets[f.i] = f.d], threw |-> f.threw]

\* One pass of the sub-step loop body for droplet i (lines 290-417).
SubStep(sim, i) ==
  Outcome(AfterMove(Move(Normalize(UpdateVelocity(Locals(sim, i, ErosionScale(sim)))))))

RECURSIVE SubSteps(_, _, _)
\* the sub-step loop of droplet i, n passes left; a pass that raises ends it
SubSteps(r, i, n) ==
  IF n = 0 \/ r.threw THEN r ELSE SubSteps(SubStep(r.sim, i), i, n - 1)

RECURSIVE CountingDead(_, _, _, _)
\* A droplet loop in which a dead droplet takes a place of the batch.
CountingDead(r, i, activeCount, batchSize) ==
  IF r.threw \/ i > Len(r.sim.droplets) \/ activeCount >= batchSize THEN r
  ELSE IF ~r.sim.droplets[i].alive THEN CountingDead(r, i + 1, activeCount + 1, batchSize)
  ELSE CountingDead(SubSteps(r, i, SubStepCount(r.sim)), i + 1, activeCount + 1, batchSize)

RECURSIVE WholePool(_, _, _, _)
\* A droplet loop that goes through the whole pool, whatever batchSize is.
WholePool(r, i, activeCount, batchSize) ==
  IF r.threw \/ i > Len(r.sim.droplets) THEN r
  ELSE IF ~r.sim.droplets[i].alive THEN WholePool(r, i + 1, activeCount, batchSize)
  ELSE WholePool(SubSteps(r, i, SubStepCount(r.sim)), i + 1, activeCount + 1, batchSize)

RECURSIVE DropletLoop(_, _, _, _)
\* for (let i = 0; i < this.droplets.length && activeCount < batchSize; i++)
DropletLoop(r, i, activeCount, batchSize) ==
  IF r.threw \/ i > Len(r.sim.droplets) \/ activeCount >= batchSize THEN r
  ELSE IF ~r.sim.droplets[i].alive THEN DropletLoop(r, i + 1, activeCount, batchSize)
  ELSE DropletLoop(SubSteps(r, i, SubStepCount(r.sim)), i + 1, activeCount + 1, batchSize)

\* this.droplets.some(d => d.alive)
SomeAlive(sim) == \E i \in 1..Len(sim.droplets) : sim.droplets[i].alive

\* lines 422-424: recompute is the outcome of `Math.random() < 0.1`
UpdateSlopeMap(sim, recompute) ==
  IF sim.params.useTalusFormation /\ recompute
  THEN [sim EXCEPT !.slopeMap = ComputeSlopeMap(sim.width, sim.height, sim.heightMap, @)]
  ELSE sim

\* lines 432-434: the copy handed to onStep and the return value
Return(sim) ==
  [sim |-> sim, threw |-> FALSE, updatedHeightMap |-> sim.heightMap, alive |-> SomeAlive(sim)]

\* What a call that raised leaves behind.
Raised(sim) == [sim |-> sim, threw |-> TRUE, updatedHeightMap |-> << >>, alive |-> FALSE]

\* lines 421-434, after the droplet loop ended as r
AfterLoop(r, recompute) ==
  IF r.threw THEN Raised(r.sim) ELSE Return(UpdateSlopeMap(r.sim, recompute))

\* A stepDroplets that processes no droplet while the engine is paused.
StepIfActive(sim, batchSize, recompute) ==
  IF ~sim.hasDroplets THEN Raised(sim)
  ELSE IF sim.dropletsActive = "false" THEN Return(sim)
  ELSE AfterLoop(DropletLoop([sim |-> sim, threw |-> FALSE], 1, 0, batchSize), recompute)

\* stepDroplets(batchSize, onStep): the engine after the call, whether the
\* call raised, the copy handed to onStep and the return value.  Reading
\* this.droplets.length raises while the pool is undefined.
StepDroplets(sim, batchSize, recompute) ==
  IF ~sim.hasDroplets THEN Raised(sim)
  ELSE AfterLoop(DropletLoop([sim |-> sim, threw |-> FALSE], 1, 0, batchSize), recompute)

\* A resume that wakes every droplet of the pool.
ResumeReviving(sim) ==
  [sim EXCEPT !.dropletsActive = "true",
              !.droplets = AsSeq([i \in 1..Len(sim.droplets) |->
                                    [sim.droplets[i] EXCEPT !.alive = TRUE]])]

\* pause() and resume()
Pause(sim) == [sim EXCEPT !.dropletsActive = "false"]
Resume(sim) == [sim EXCEPT !.dropletsActive = "true"]

\* A refill that loses the pool's last droplet.
RefillShort(sim, rnds) ==
  AsSeq([i \in 1..(Len(sim.droplets) - 1) |-> CreateDroplet(sim, rnds[i])])

\* Array(this.droplets.length).fill().map(() => this._createDroplet())
Refill(sim, rnds) == AsSeq([i \in 1..Len(sim.droplets) |-> CreateDroplet(sim, rnds[i])])

\* reset(heightMap); rnds are the draws of the new droplets
Reset(sim, heightMap, rnds) ==
  [sim EXCEPT
     !.heightMap        = heightMap,
     !.droplets         = Refill(sim, rnds),
     !.flowMap          = IF sim.params.useFlowAccumulation
                          THEN ZeroMap(sim.width, sim.height) ELSE @,
     !.microDetailMap   = IF sim.params.useMultiScale
                          THEN ZeroMap(sim.width, sim.height) ELSE @,
     !.microDetailNoise = IF sim.params.useMicroDetails
                          THEN InitializeMicroDetailNoise(sim.width, sim.height, sim.params)
                          ELSE @,
     !.talusMap         = IF sim.params.useTalusFormation
                          THEN ZeroMap(sim.width, sim.height) ELSE @,
     !.slopeMap         = IF sim.params.useTalusFormation
                          THEN ComputeSlopeMap(sim.width, sim.height, heightMap,
                                               ZeroMap(sim.width, sim.height))
                          ELSE @]

----------------------------------------------------------------------------
(* Inputs of the model *)

\* Grid size of the modelled runs.
Grid == [width |-> 4, height |-> 4]

\* Bounds of the model.
MaxCalls == 3        \* coordinator calls per run
MaxDroplets == 2     \* largest numDroplets passed to init
MaxBatch == 1        \* largest batchSize passed to step
MaxRequests == 4     \* coordinator calls per run of App

\* Height fields handed to init and reset (row-major).
HeightAt(kind, width, x, y) ==
  CASE kind = "flat" -> Unit
    [] kind = "slope" -> (width - 1 - x) * 2 * Unit
    [] kind = "belowZero" -> (1 - x) * Unit
    [] kind = "ridge" -> (x + width * y + 1) * 250000

FieldOn(width, height, kind) ==
  AsSeq([i \in 1..(width * height) |->
           HeightAt(kind, width, (i - 1) % width, (i - 1) \div width)])

FlatField == FieldOn(Grid.width, Grid.height, "flat")
SlopeField == FieldOn(Grid.width, Grid.height, "slope")
BelowZeroField == FieldOn(Grid.width, Grid.height, "belowZero")

\* Parameter overlays handed to the constructor.
ShortOverlay == [maxDropletLifetime |-> 2]
ScenarioOverlay == [minVolume |-> 1000, maxDropletLifetime |-> 5]
StrongOverlay ==
  [ inertia |-> 100000, friction |-> 100000, sedimentCapacityFactor |-> 40 * Unit,
    depositionRate |-> 40 * Unit, evaporationRate |-> 10000, minVolume |-> 10000,
    initialVolume |-> Unit, initialSpeed |-> Unit, maxDropletLifetime |-> 3,
    scales |-> << Unit, 500000, 250000, 125000, 62500 >>,
    flowAccumulationFactor |-> 50000, viscosityFactor |-> 10000,
    microDetailScale |-> 300000, microDetailStrength |-> 100000,
    talusFormationRate |-> 20 * Unit, talusErosionRate |-> 20 * Unit,
    talusDepositionRate |-> Unit, talusMaxHeight |-> 500000 ]

\* Math.random() draws of one droplet.
Rnd(x, y, r) == [x |-> x, y |-> y, dist |-> << r, r, r, r, r >>]

\* The draws a droplet is created from.
Draws == {Rnd(250000, 250000, 0), Rnd(750000, 250000, 0)}


----------------------------------------------------------------------------
(* Buffers.  A Float32Array is known by its identity, an index into        *)
(* buffers.  side is the side of the worker boundary on which the array    *)
(* is usable: postMessage with the array's buffer in the transfer list     *)
(* detaches it on the sending side at once.  origin tells who allocated    *)
(* it; data is its contents, except for the engine's own array, whose      *)
(* contents are simulator.heightMap.                                       *)

NewBuffer(side, origin, data) == [side |-> side, origin |-> origin, data |-> data]

\* Identity of the next array allocated.
NextBuffer == Len(buffers) + 1

----------------------------------------------------------------------------
(* ErosionWorkerService: each method returns a promise (a record of calls) *)
(* and registers a message handler (an index in listeners).                *)

NewCall(type) == [type |-> type, state |-> "pending", alive |-> FALSE, heightMap |-> 0]

\* The Float32Array a caller passes to init or reset: a new array holding
\* field (its identity is the next one), or an array it has passed before.
FreshArray(field) == [id |-> NextBuffer, data |-> field]
StaleArray(b) == [id |-> b, data |-> buffers[b].data]

\* A post without the transfer list: the array is copied, and the caller's
\* stays usable.
PostWithoutTransfer(type, message, heightMap) ==
  /\ listeners' = listeners \cup {Len(calls) + 1}
  /\ calls' = Append(calls, NewCall(type))
  /\ toWorker' = Append(toWorker, message)
  /\ buffers' = IF heightMap.id = NextBuffer
                THEN Append(buffers, NewBuffer("main", "caller", heightMap.data))
                ELSE buffers

\* worker.postMessage(message, [heightMap.buffer]) inside a promise executor
\* whose handler is already registered: the buffer moves to the worker; a
\* detached buffer in the transfer list raises DataCloneError, which rejects
\* the promise, and nothing is sent.
PostWithTransfer(type, message, heightMap) ==
  /\ listeners' = listeners \cup {Len(calls) + 1}
  /\ IF heightMap.id = NextBuffer
     THEN /\ calls' = Append(calls, NewCall(type))
          /\ toWorker' = Append(toWorker, message)
          /\ buffers' = Append(buffers, NewBuffer("worker", "caller", heightMap.data))
     ELSE IF buffers[heightMap.id].side = "main"
     THEN /\ calls' = Append(calls, NewCall(type))
          /\ toWorker' = Append(toWorker, message)
          /\ buffers' = [buffers EXCEPT ![heightMap.id].side = "worker"]
     ELSE /\ calls' = Append(calls, [NewCall(type) EXCEPT !.state = "rejected"])
          /\ UNCHANGED <<toWorker, buffers>>

\* init(width, height, heightMap, params, numDroplets)
ServiceInit(width, height, heightMap, params, numDroplets) ==
  /\ PostWithTransfer("init",
       [type |-> "init", width |-> width, height |-> height, heightMap |-> heightMap.id,
        params |-> params, numDroplets |-> numDroplets], heightMap)
  /\ UNCHANGED <<simulator, toMain, engineBuf, lastCall>>

\* step(batchSize)
ServiceStep(batchSize) ==
  /\ listeners' = listeners \cup {Len(calls) + 1}
  /\ calls' = Append(calls, NewCall("step"))
  /\ toWorker' = Append(toWorker, [type |-> "step", batchSize |-> batchSize])
  /\ UNCHANGED <<simulator, toMain, buffers, engineBuf, lastCall>>

\* pause()
ServicePause ==
  /\ listeners' = listeners \cup {Len(calls) + 1}
  /\ calls' = Append(calls, NewCall("pause"))
  /\ toWorker' = Append(toWorker, [type |-> "pause"])
  /\ UNCHANGED <<simulator, toMain, buffers, engineBuf, lastCall>>

\* resume()
ServiceResume ==
  /\ listeners' = listeners \cup {Len(calls) + 1}
  /\ calls' = Append(calls, NewCall("resume"))
  /\ toWorker' = Append(toWorker, [type |-> "resume"])
  /\ UNCHANGED <<simulator, toMain, buffers, engineBuf, lastCall>>

\* reset(heightMap)
ServiceReset(heightMap) ==
  /\ PostWithTransfer("reset", [type |-> "reset", heightMap |-> heightMap.id], heightMap)
  /\ UNCHANGED <<simulator, toMain, engineBuf, lastCall>>

\* The message handler a method registered, run on message m for call c:
\* the call's record afterwards.  A handler acts on a message of its own
\* type only; resolving or rejecting a settled promise changes nothing.
Handle(c, m) ==
  IF c.type # m.type \/ c.state # "pending" THEN c
  ELSE IF c.type = "init"
       THEN [c EXCEPT !.state = IF m.success THEN "resolved" ELSE "rejected"]
  ELSE IF c.type = "step"
       THEN [c EXCEPT !.state = "resolved", !.alive = m.alive, !.heightMap = m.heightMap]
  ELSE [c EXCEPT !.state = "resolved"]

\* The main thread dispatches the worker's next message to every registered
\* handler; a handler that acts on it removes itself.
Dispatch ==
  /\ toMain # << >>
  /\ LET m == Head(toMain)
     IN  /\ calls' = AsSeq([i \in DOMAIN calls |->
                             IF i \in listeners THEN Handle(calls[i], m) ELSE calls[i]])
         /\ listeners' = {i \in listeners : calls[i].type # m.type}
  /\ toMain' = Tail(toMain)
  /\ UNCHANGED <<simulator, toWorker, buffers, engineBuf, lastCall, app>>


----------------------------------------------------------------------------
(* erosionWorker.js: self.onmessage, one action per case of the switch *)

\* `new Float32Array(width * height)` raises RangeError on a negative length;
\* the constructor allocates such a map when any of the four flags is on.
ConstructorRaises(width, height, overlay) ==
  LET on(flag) == IF flag \in DOMAIN overlay THEN overlay[flag] ELSE TRUE
  IN  /\ width * height < 0
      /\ on("useFlowAccumulation") \/ on("useMultiScale") \/ on("useMicroDetails")
         \/ on("useTalusFormation")

\* case 'init', once the engine was constructed.  simulator is assigned the
\* new engine, then Array(numDroplets) raises RangeError on a negative
\* length; the draws of the droplets created are Math.random()'s.
StartEngine(engine, numDroplets, draws) ==
  /\ buffers' = Append(buffers, NewBuffer("worker", "engine", << >>))
  /\ engineBuf' = NextBuffer
  /\ IF numDroplets < 0
     THEN /\ simulator' = engine
          /\ toMain' = Append(toMain, [type |-> "init", success |-> FALSE])
     ELSE /\ \E rnds \in [1..numDroplets -> draws] :
               simulator' = WithPool(engine, rnds)
          /\ toMain' = Append(toMain, [type |-> "init", success |-> TRUE])

\* case 'init'; draws is the set Math.random()'s outcomes are taken from
OnInit(draws) ==
  /\ toWorker # << >>
  /\ Head(toWorker).type = "init"
  /\ IF ConstructorRaises(Head(toWorker).width, Head(toWorker).height, Head(toWorker).params)
     THEN /\ toMain' = Append(toMain, [type |-> "init", success |-> FALSE])
          /\ UNCHANGED <<simulator, buffers, engineBuf>>
     ELSE StartEngine(Constructor(Head(toWorker).width, Head(toWorker).height,
                                  buffers[Head(toWorker).heightMap].data,
                                  Head(toWorker).params),
                      Head(toWorker).numDroplets, draws)
  /\ toWorker' = Tail(toWorker)
  /\ UNCHANGED <<calls, listeners, lastCall, app>>

\* case 'step', once stepDroplets ended as r.  The array sent back as 'step'
\* is allocated and filled before stepDroplets runs; the array handed to
\* onStep is posted as 'progress'.
PostStep(r) ==
  /\ simulator' = r.sim
  /\ IF r.threw
     THEN /\ buffers' = Append(buffers, NewBuffer("worker", "copy", simulator.heightMap))
          /\ toMain' = Append(toMain, [type |-> "error", message |-> "raised"])
     ELSE /\ buffers' = buffers \o
               << NewBuffer("main", "copy", simulator.heightMap),
                  NewBuffer("main", "copy", r.updatedHeightMap) >>
          /\ toMain' = toMain \o
               << [type |-> "progress", heightMap |-> NextBuffer + 1],
                  [type |-> "step", alive |-> r.alive, heightMap |-> NextBuffer] >>

\* case 'step'
OnStep(recompute) ==
  /\ toWorker # << >>
  /\ Head(toWorker).type = "step"
  /\ IF simulator = NoSimulator
     THEN /\ toMain' = Append(toMain, [type |-> "error", message |-> "Simulator not initialized"])
          /\ UNCHANGED <<simulator, buffers>>
     ELSE PostStep(StepDroplets(simulator, Head(toWorker).batchSize, recompute))
  /\ toWorker' = Tail(toWorker)
  /\ UNCHANGED <<calls, listeners, engineBuf, lastCall, app>>

\* case 'pause'
OnPause ==
  /\ toWorker # << >>
  /\ Head(toWorker).type = "pause"
  /\ IF simulator = NoSimulator
     THEN /\ toMain' = Append(toMain, [type |-> "error", message |-> "Simulator not initialized"])
          /\ UNCHANGED simulator
     ELSE /\ simulator' = Pause(simulator)
          /\ toMain' = Append(toMain, [type |-> "pause"])
  /\ toWorker' = Tail(toWorker)
  /\ UNCHANGED <<calls, listeners, buffers, engineBuf, lastCall, app>>

\* case 'resume'
OnResume ==
  /\ toWorker # << >>
  /\ Head(toWorker).type = "resume"
  /\ IF simulator = NoSimulator
     THEN /\ toMain' = Append(toMain, [type |-> "error", message |-> "Simulator not initialized"])
          /\ UNCHANGED simulator
     ELSE /\ simulator' = Resume(simulator)
          /\ toMain' = Append(toMain, [type |-> "resume"])
  /\ toWorker' = Tail(toWorker)
  /\ UNCHANGED <<calls, listeners, buffers, engineBuf, lastCall, app>>

\* case 'reset'.  reset() replaces this.heightMap by a copy of the payload
\* and then reads this.droplets.length, which raises while the pool is
\* undefined.  draws is the set Math.random()'s outcomes are taken from.
OnReset(draws) ==
  /\ toWorker # << >>
  /\ Head(toWorker).type = "reset"
  /\ LET m == Head(toWorker)
     IN  IF simulator = NoSimulator
         THEN /\ toMain' = Append(toMain, [type |-> "error", message |-> "Simulator not initialized"])
              /\ UNCHANGED <<simulator, buffers, engineBuf>>
         ELSE /\ buffers' = Append(buffers, NewBuffer("worker", "engine", << >>))
              /\ engineBuf' = NextBuffer
              /\ IF ~simulator.hasDroplets
                 THEN /\ simulator' = [simulator EXCEPT !.heightMap = buffers[m.heightMap].data]
                      /\ toMain' = Append(toMain, [type |-> "error", message |-> "raised"])
                 ELSE /\ \E rnds \in [1..Len(simulator.droplets) -> draws] :
                           simulator' = Reset(simulator, buffers[m.heightMap].data, rnds)
                      /\ toMain' = Append(toMain, [type |-> "reset"])
  /\ toWorker' = Tail(toWorker)
  /\ UNCHANGED <<calls, listeners, lastCall, app>>


----------------------------------------------------------------------------
(* Spec: the coordinator, the worker and one engine.  The caller keeps to  *)
(* the protocol's rule of one outstanding request: it calls a method when  *)
(* no message is in flight.                                                *)

Fields == {SlopeField, BelowZeroField}
Overlays == {StrongOverlay}
DropletCounts == {-1, MaxDroplets}
BatchSizes == {0, MaxBatch}

NoCall == [method |-> "none"]

\* App before any heightmap was generated: erosionRunning is false, and
\* erosionWorkerRef.current and heightMapRef.current.original are null.
NoApp ==
  [erosionRunning |-> FALSE, worker |-> FALSE, original |-> 0, loop |-> "none",
   awaited |-> 0, resets |-> {}]

Init ==
  /\ simulator = NoSimulator
  /\ toWorker = << >>
  /\ toMain = << >>
  /\ calls = << >>
  /\ listeners = {}
  /\ buffers = << >>
  /\ engineBuf = 0
  /\ lastCall = NoCall
  /\ app = NoApp

\* The arrays a caller may pass: a new one, or the last one it passed.
Passed == {b \in 1..Len(buffers) : buffers[b].origin = "caller"}
HeightMaps ==
  {FreshArray(field) : field \in Fields}
  \cup {StaleArray(b) : b \in {c \in Passed : \A e \in Passed : e <= c}}

Idle == toWorker = << >> /\ toMain = << >>

\* The caller's next call.
Call ==
  /\ Idle
  /\ Len(calls) < MaxCalls
  /\ \/ \E heightMap \in HeightMaps, params \in Overlays, numDroplets \in DropletCounts :
          ServiceInit(Grid.width, Grid.height, heightMap, params, numDroplets)
     \/ \E batchSize \in BatchSizes : ServiceStep(batchSize)
     \/ ServicePause
     \/ ServiceResume
     \/ \E heightMap \in HeightMaps : ServiceReset(heightMap)
  /\ UNCHANGED app

\* The worker's onmessage on its next message.
OnMessage(draws) ==
  \/ OnInit(draws)
  \/ \E recompute \in BOOLEAN : OnStep(recompute)
  \/ OnPause
  \/ OnResume
  \/ OnReset(draws)

Next ==
  \/ Call
  \/ Dispatch
  \/ OnMessage(Draws)

Spec == Init /\ [][Next]_vars

----------------------------------------------------------------------------
(* Properties of the coordinator, the worker and the engine behind them *)

\* C1: every cell of the engine's height field is >= 0 in every reachable
\* state, whatever field was handed to construction or reset.
NonNegativeHeights ==
  ~simulator.null => \A i \in DOMAIN simulator.heightMap : simulator.heightMap[i] >= 0

\* The worker handles a reset request on an engine whose pool is allocated.
ResetHandled ==
  /\ toWorker # << >>
  /\ Head(toWorker).type = "reset"
  /\ toWorker' = Tail(toWorker)
  /\ ~simulator.null
  /\ simulator.hasDroplets

\* C7: the pool holds as many droplets immediately after reset(h) as
\* immediately before it.
ResetKeepsPoolSize ==
  [][ResetHandled => Len(simulator'.droplets) = Len(simulator.droplets)]_vars

\* A reset of a pool of MaxDroplets droplets was just answered.
PoolWasReset ==
  /\ toMain # << >>
  /\ Head(toMain).type = "reset"
  /\ Len(simulator.droplets) = MaxDroplets

\* C8: a buffer the caller passed to init or reset is usable on the worker's
\* side only, a buffer the worker sent in a step or progress response is
\* usable on the main side only, and the engine's own height field stays on
\* the worker's side and is never the buffer sent.
TransferDiscipline ==
  /\ \A b \in DOMAIN buffers : buffers[b].origin = "caller" => buffers[b].side = "worker"
  /\ \A i \in DOMAIN toWorker :
       toWorker[i].type \in {"init", "reset"} => buffers[toWorker[i].heightMap].side = "worker"
  /\ \A i \in DOMAIN toMain :
       toMain[i].type \in {"step", "progress"} =>
         /\ buffers[toMain[i].heightMap].side = "main"
         /\ toMain[i].heightMap # engineBuf
  /\ \A i \in DOMAIN calls :
       calls[i].type = "step" /\ calls[i].state = "resolved" =>
         /\ buffers[calls[i].heightMap].side = "main"
         /\ calls[i].heightMap # engineBuf
  /\ engineBuf # 0 => buffers[engineBuf].side = "worker"

\* A step call was resolved with a buffer, after the caller passed one.
BufferCameBack ==
  /\ \E i \in DOMAIN calls : calls[i].type = "step" /\ calls[i].state = "resolved"
  /\ \E b \in DOMAIN buffers : buffers[b].origin = "caller"

\* C9: the height field carried by a step response is the engine's height
\* field as it is after that call's droplet processing.
StepCarriesUpdatedField ==
  \A i \in DOMAIN toMain :
    toMain[i].type = "step" => buffers[toMain[i].heightMap].data = simulator.heightMap

\* C10: a step, pause, resume or reset request made before any init has
\* constructed an engine is answered, and its call completes with the
\* failure: once no message is in flight, no such call is still pending.
NotInitializedReported ==
  (simulator.null /\ Idle) =>
    \A i \in DOMAIN calls :
      calls[i].type \in {"step", "pause", "resume", "reset"} => calls[i].state # "pending"

----------------------------------------------------------------------------
(* The engine driven directly, without worker and coordinator *)

\* An engine with its pool: the constructor, then the pool of rnds.
Engine(width, height, heightMap, overlay, rnds) ==
  WithPool(Constructor(width, height, heightMap, overlay), rnds)

\* The state once the engine was built.
EngineInit(engines) ==
  /\ simulator \in engines
  /\ toWorker = << >>
  /\ toMain = << >>
  /\ calls = << >>
  /\ listeners = {}
  /\ buffers = << >>
  /\ engineBuf = 0
  /\ lastCall = NoCall
  /\ app = NoApp

\* simulator.stepDroplets(batchSize) ended as r
Stepped(batchSize, r) ==
  /\ simulator' = r.sim
  /\ lastCall' = [method |-> "stepDroplets", batchSize |-> batchSize,
                  threw |-> r.threw, alive |-> r.alive]
  /\ UNCHANGED <<toWorker, toMain, calls, listeners, buffers, engineBuf, app>>

\* simulator.stepDroplets(batchSize)
EngineStep(batchSize, recompute) ==
  Stepped(batchSize, StepDroplets(simulator, batchSize, recompute))

----------------------------------------------------------------------------
(* TermSpec: step calls repeated for ever on one engine *)

\* Engines on two fields, with pools of up to MaxDroplets droplets, and with
\* two parameter sets: every map allocated, and micro-details on while the
\* map they are added to is not allocated.
TermInit ==
  EngineInit({Engine(Grid.width, Grid.height, field, overlay, rnds) :
                field \in {SlopeField, FlatField},
                overlay \in {StrongOverlay, Assign(StrongOverlay, [useMultiScale |-> FALSE])},
                rnds \in UNION {[1..n -> Draws] : n \in 0..MaxDroplets}})

TermNext == \E batchSize \in -1..MaxBatch, recompute \in BOOLEAN : EngineStep(batchSize, recompute)

\* The caller repeats its step calls.
TermSpec == TermInit /\ [][TermNext]_vars /\ WF_vars(TermNext)

\* The last step call returned alive = false.
ReturnedDead == lastCall.method = "stepDroplets" /\ ~lastCall.threw /\ ~lastCall.alive

\* The last step call raised.
StepRaised == lastCall.method = "stepDroplets" /\ lastCall.threw

\* The last step call was asked to process at least one droplet.
PositiveBatch == lastCall.method = "stepDroplets" /\ lastCall.batchSize >= 1

\* C2: with step calls repeated for ever, those of batchSize >= 1 among
\* them without end, some call returns alive = false or raises.
EventuallyDead == ([]<>PositiveBatch) => <>(ReturnedDead \/ StepRaised)

\* C2 as stated: with step calls repeated, whatever their batchSize, some
\* call returns alive = false.
EventuallyDeadAnyBatch == <>ReturnedDead

\* A call of batchSize >= 1 returned alive = false on a full pool, one of
\* whose droplets died of age.
PoolDied ==
  /\ ReturnedDead
  /\ PositiveBatch
  /\ Len(simulator.droplets) = MaxDroplets
  /\ \E i \in DOMAIN simulator.droplets :
       simulator.droplets[i].lifetime > simulator.params.maxDropletLifetime

----------------------------------------------------------------------------
(* InterpSpec: _bilinearInterp sampled on the engine's height field *)

\* The kinds of field the engines are built on.
Kinds == {"flat", "slope", "belowZero", "ridge"}

\* A square grid and one that is wider than high.
Grids == {Grid, [width |-> 5, height |-> 3]}

InterpInit ==
  EngineInit({Engine(g.width, g.height, FieldOn(g.width, g.height, kind), ShortOverlay, << >>) :
                g \in Grids, kind \in Kinds})

\* The coordinates 0, 0.5, 1, ... up to n - 1.
Halves(n) == {k * (Unit \div 2) : k \in 0..(2 * (n - 1))}

\* this._bilinearInterp(this.heightMap, x, y)
Sample(x, y) ==
  /\ lastCall' = [method |-> "_bilinearInterp", x |-> x, y |-> y,
                  value |-> BilinearInterp(simulator.width, simulator.height,
                                           simulator.heightMap, x, y)]
  /\ UNCHANGED <<simulator, toWorker, toMain, calls, listeners, buffers, engineBuf, app>>

InterpNext == \E x \in Halves(simulator.width), y \in Halves(simulator.height) : Sample(x, y)

InterpSpec == InterpInit /\ [][InterpNext]_vars

\* C5: _bilinearInterp at an integer coordinate of the grid returns the
\* value stored in that cell, the last row and the last column included.
InterpExact ==
  (lastCall.method = "_bilinearInterp" /\ lastCall.x % Unit = 0 /\ lastCall.y % Unit = 0)
    => lastCall.value = simulator.heightMap[ToIndex(simulator.width, Floor(lastCall.x),
                                                    Floor(lastCall.y))]

----------------------------------------------------------------------------
(* AddSpec: one _bilinearAdd on the height field of a new engine *)

AddInit ==
  EngineInit({Engine(Grid.width, Grid.height, FieldOn(Grid.width, Grid.height, kind),
                     ShortOverlay, << >>) : kind \in Kinds})

\* The sum of the four corners of cell (x, y); 0 where _bilinearAdd's guard
\* keeps it from touching any cell.
CornerSum(width, height, heightMap, x, y) ==
  IF InCell(width, height, x, y)
  THEN heightMap[ToIndex(width, x, y)] + heightMap[ToIndex(width, x + 1, y)]
       + heightMap[ToIndex(width, x, y + 1)] + heightMap[ToIndex(width, x + 1, y + 1)]
  ELSE 0

\* this._bilinearAdd(this.heightMap, x, y, offX, offY, value), once
Add(x, y, offX, offY, value) ==
  /\ lastCall = NoCall
  /\ simulator' = [simulator EXCEPT !.heightMap =
                     BilinearAdd(simulator.width, simulator.height, @, x, y, offX, offY, value)]
  /\ lastCall' = [method |-> "_bilinearAdd", x |-> x, y |-> y, value |-> value,
                  before |-> CornerSum(simulator.width, simulator.height,
                                       simulator.heightMap, x, y)]
  /\ UNCHANGED <<toWorker, toMain, calls, listeners, buffers, engineBuf, app>>

\* Every cell, offsets in [0, 1) and amounts of both signs.
AddNext ==
  \E x \in 0..(Grid.width - 1), y \in 0..(Grid.height - 1),
     offX \in {0, 250000, 500000, 900000}, offY \in {0, 250000, 500000, 900000},
     value \in {-Unit, -100000, 100000, Unit} : Add(x, y, offX, offY, value)

AddSpec == AddInit /\ [][AddNext]_vars

\* C6: one _bilinearAdd of amount v changes the sum of the four cells it
\* touches by at most |v|.
AddBounded ==
  lastCall.method = "_bilinearAdd"
    => Abs(CornerSum(simulator.width, simulator.height, simulator.heightMap,
                     lastCall.x, lastCall.y) - lastCall.before) <= Abs(lastCall.value)

----------------------------------------------------------------------------
(* FlatSpec: one stepDroplets(1) on the flat field, a droplet at (2, 2) *)

\* Every setting of the use* switches, over three sets of numbers.
FlatOverlays ==
  {Assign(base, flags) :
     base \in {ShortOverlay, ScenarioOverlay, StrongOverlay},
     flags \in [{"useMultiScale", "useSedimentSizes", "useFlowAccumulation",
                 "useTemperature", "useMicroDetails", "useTalusFormation"} -> BOOLEAN]}

\* The draws 0.5, 0.5 spawn the droplet at (0.5 * (4 - 2) + 1, 0.5 * (4 - 2) + 1).
FlatInit ==
  EngineInit({Engine(Grid.width, Grid.height, FlatField, overlay, << Rnd(500000, 500000, 0) >>) :
                overlay \in FlatOverlays})

FlatNext == lastCall = NoCall /\ \E recompute \in BOOLEAN : EngineStep(1, recompute)

FlatSpec == FlatInit /\ [][FlatNext]_vars

\* The index of cell (2, 2), the droplet's cell.
CentreCell == ToIndex(Grid.width, 2, 2)

\* The droplet outlives a sub-step: none of the kill conditions holds.
Survives(d, params) ==
  ~(d.water < params.minVolume \/ d.lifetime > params.maxDropletLifetime \/ d.speed < 10000)

\* What one sub-step on the flat field leaves of droplet d and the field.
FlatOutcome(sim, d, threw) ==
  /\ d.x = 2 * Unit /\ d.y = 2 * Unit
  /\ d.speed = Mul(sim.params.initialSpeed, Unit - sim.params.friction)
  /\ \A i \in DOMAIN FlatField : i # CentreCell => sim.heightMap[i] = Unit
  /\ sim.heightMap[CentreCell] <= Unit
  /\ threw => sim.params.useMicroDetails /\ ~sim.params.useMultiScale /\ d.lifetime = 0
  /\ ~threw => /\ sim.heightMap[CentreCell] = Unit - d.sediment
               /\ d.lifetime = 1
               /\ d.alive <=> Survives(d, sim.params)

\* C3: one stepDroplets(1) on the flat field with a droplet at (2, 2) leaves
\* the droplet in place with speed initialSpeed * (1 - friction), changes no
\* cell but (2, 2), which it lowers by what the droplet picked up, and,
\* unless it raises, leaves the droplet dead exactly when a kill condition
\* holds.
FlatStep ==
  lastCall.method = "stepDroplets"
    => FlatOutcome(simulator, simulator.droplets[1], lastCall.threw)

\* C3 as stated: the call leaves the droplet dead and the field as it was.
FlatDeadUnchanged ==
  lastCall.method = "stepDroplets"
    => ~simulator.droplets[1].alive /\ simulator.heightMap = FlatField

\* The call returned, the droplet is alive and cell (2, 2) was eroded.
FlatAliveEroded ==
  /\ lastCall.method = "stepDroplets"
  /\ ~lastCall.threw
  /\ simulator.droplets[1].alive
  /\ simulator.heightMap[CentreCell] < Unit

----------------------------------------------------------------------------
(* ScenarioSpec: init(4, 4, flat field, {minVolume: 0.001,                 *)
(* maxDropletLifetime: 5}, 1), then three step(1) calls, one after another *)

\* The caller's next call: init first, then step(1) three times, each once
\* the call before it is settled and its messages are handled.
ScenarioCall ==
  /\ Idle
  /\ IF calls = << >>
     THEN ServiceInit(Grid.width, Grid.height, FreshArray(FlatField), ScenarioOverlay, 1)
     ELSE /\ Len(calls) < 4
          /\ calls[Len(calls)].state = "resolved"
          /\ ServiceStep(1)
  /\ UNCHANGED app

\* The Math.random() outcomes spawn the droplet at 1, 1.5, 2 or 2.5.
ScenarioNext ==
  \/ ScenarioCall
  \/ Dispatch
  \/ OnInit({Rnd(x, y, 0) : x, y \in {0, 250000, 500000, 750000}})
  \/ \E recompute \in BOOLEAN : OnStep(recompute)

ScenarioSpec == Init /\ [][ScenarioNext]_vars

\* No call failed, no error was posted, and the heights are those of the
\* flat field, in the engine and in every array a step call returned.
ScenarioQuiet ==
  /\ \A i \in DOMAIN calls : calls[i].state # "rejected"
  /\ \A i \in DOMAIN toMain : toMain[i].type # "error"
  /\ simulator # NoSimulator => simulator.heightMap = FlatField
  /\ \A i \in DOMAIN calls :
       calls[i].type = "step" /\ calls[i].state = "resolved"
         => buffers[calls[i].heightMap].data = FlatField

\* The droplet is where line 321 lets it live.
Inside(d) ==
  d.x >= Unit /\ d.x <= (Grid.width - 2) * Unit /\ d.y >= Unit /\ d.y <= (Grid.height - 2) * Unit

\* C4: the three step(1) calls raise no error and leave every height
\* unchanged, and each of them returns alive = true when the droplet was
\* spawned with x <= 2 and y <= 2, alive = false otherwise.
ScenarioOutcome ==
  /\ ScenarioQuiet
  /\ \A i \in DOMAIN calls :
       calls[i].type = "step" /\ calls[i].state = "resolved"
         => (calls[i].alive <=> Inside(simulator.droplets[1]))

\* C4 as stated: no error, every height unchanged, and every step call
\* after the first returns alive = false.
ScenarioDeadAfterFirst ==
  /\ ScenarioQuiet
  /\ \A i \in DOMAIN calls :
       i >= 3 /\ calls[i].type = "step" /\ calls[i].state = "resolved" => ~calls[i].alive

\* The three step calls have returned, the last one alive = true.
ScenarioRan ==
  /\ Idle
  /\ Len(calls) = 4
  /\ \A i \in DOMAIN calls : calls[i].state = "resolved"
  /\ calls[4].alive
  /\ simulator.droplets[1].lifetime = 3

----------------------------------------------------------------------------
(* LiveSpec: worker and coordinator, every answer dispatched in the end *)

\* The main thread's event loop runs the handlers on every message the
\* worker posted.
LiveSpec == Spec /\ WF_vars(Dispatch)

\* The worker's answer to the last request is the error of an exception
\* raised inside stepDroplets or reset, not yet dispatched.
RaiseAnswered ==
  /\ toMain # << >>
  /\ Head(toMain).type = "error"
  /\ Head(toMain).message = "raised"
  /\ calls[Len(calls)].type \in {"step", "reset"}

\* C11: when the worker answers a step or reset request with the error of
\* an exception, the promise of that call is rejected in the end.
FailureSurfaced ==
  \A i \in 1..MaxCalls :
    [](RaiseAnswered /\ Len(calls) = i => <>(Len(calls) >= i /\ calls[i].state = "rejected"))

\* C12: when the worker answers an init request with success = false, it
\* holds no engine, so that a following step is answered 'not initialized'.
InitFailureUninitializes ==
  \A i \in DOMAIN toMain :
    toMain[i].type = "init" /\ ~toMain[i].success => simulator = NoSimulator

----------------------------------------------------------------------------
(* AppSpec: App's Start, Stop and Reset handlers and its batching loop, in *)
(* front of one coordinator and its worker.  The user starts erosion once. *)
(* app.loop is the position of the loop started by handleStartErosion,     *)
(* app.awaited the call whose promise it waits for, app.resets the reset   *)
(* calls whose continuation has not run, app.original the identity of the  *)
(* array heightMapRef.current.original (0 = null).                         *)

\* erosionParams, no parameter being set by the user
ErosionParams ==
  [ inertia |-> 10000, friction |-> 5000, sedimentCapacityFactor |-> Unit,
    depositionRate |-> 80000, evaporationRate |-> 2000, minVolume |-> 1000,
    initialVolume |-> 200000, initialSpeed |-> 200000, maxDropletLifetime |-> 120,
    useMultiScale |-> TRUE, scales |-> << Unit, 500000, 250000, 125000, 62500 >>,
    scaleWeights |-> << 300000, 250000, 200000, 150000, 100000 >>,
    useSedimentSizes |-> TRUE,
    sedimentSizes |-> << 1000000, 800000, 600000, 400000, 200000 >>,
    useFlowAccumulation |-> TRUE, flowAccumulationFactor |-> 50000,
    useTemperature |-> TRUE, temperature |-> 20 * Unit, viscosityFactor |-> 10000,
    useMicroDetails |-> TRUE, microDetailScale |-> 10000, microDetailStrength |-> 100000 ]

\* handleGenerateHeightmap: a new array becomes heightMapRef.current.original.
\* Generating again while the last one is still the caller's changes nothing
\* that is modelled.
HandleGenerateHeightmap ==
  /\ IF app.original = 0 THEN TRUE ELSE buffers[app.original].side = "worker"
  /\ buffers' = Append(buffers, NewBuffer("main", "caller", FlatField))
  /\ app' = [app EXCEPT !.original = NextBuffer]
  /\ UNCHANGED <<simulator, toWorker, toMain, calls, listeners, engineBuf, lastCall>>

\* handleStartErosion, which the panel offers while erosionRunning is false
HandleStartErosion ==
  /\ ~app.erosionRunning
  /\ ~app.worker
  /\ app.original # 0
  /\ Len(calls) < MaxRequests
  /\ ServiceInit(Grid.width, Grid.height, StaleArray(app.original), ErosionParams, 1)
  /\ app' = [app EXCEPT !.worker = TRUE, !.erosionRunning = TRUE, !.loop = "init",
                        !.awaited = Len(calls) + 1]

\* worker.step(erosionBatchSize) inside runBatch
StepAgain ==
  /\ Len(calls) < MaxRequests
  /\ ServiceStep(MaxBatch)
  /\ app' = [app EXCEPT !.loop = "step", !.awaited = Len(calls) + 1]

\* The loop ends: setErosionRunning(false).
LoopEnds ==
  /\ app' = [app EXCEPT !.loop = "done", !.erosionRunning = FALSE]
  /\ UNCHANGED <<simulator, toWorker, toMain, calls, listeners, buffers, engineBuf, lastCall>>

\* The continuation of worker.init(...): runBatch(), or the catch.
ThenInit ==
  /\ app.loop = "init"
  /\ calls[app.awaited].state # "pending"
  /\ IF calls[app.awaited].state = "resolved" THEN StepAgain ELSE LoopEnds

\* The continuation of worker.step(...): setTimeout(runBatch, 0) while alive.
ThenStep ==
  /\ app.loop = "step"
  /\ calls[app.awaited].state # "pending"
  /\ IF calls[app.awaited].state = "resolved" /\ calls[app.awaited].alive
     THEN /\ app' = [app EXCEPT !.loop = "timer"]
          /\ UNCHANGED <<simulator, toWorker, toMain, calls, listeners, buffers, engineBuf,
                         lastCall>>
     ELSE LoopEnds

\* The timer set by setTimeout(runBatch, 0) fires.
RunBatch == app.loop = "timer" /\ StepAgain

\* handleStopErosion, which the panel offers while erosionRunning is true
HandleStopErosion ==
  /\ app.erosionRunning
  /\ app.worker
  /\ Len(calls) < MaxRequests
  /\ ServicePause
  /\ app' = [app EXCEPT !.erosionRunning = FALSE]

\* handleResetErosion, which the panel always offers
HandleResetErosion ==
  /\ app.original # 0
  /\ app.worker
  /\ Len(calls) < MaxRequests
  /\ ServiceReset(StaleArray(app.original))
  /\ app' = [app EXCEPT !.resets = @ \cup {Len(calls) + 1}]

\* The continuation of reset(orig).  The then-callback iterates orig, which
\* the reset has detached, and raises before it sets anything; the catch
\* only logs.
ThenReset ==
  /\ \E i \in app.resets :
       /\ calls[i].state # "pending"
       /\ app' = [app EXCEPT !.resets = @ \ {i}]
  /\ UNCHANGED <<simulator, toWorker, toMain, calls, listeners, buffers, engineBuf, lastCall>>

AppNext ==
  \/ HandleGenerateHeightmap
  \/ HandleStartErosion
  \/ ThenInit
  \/ ThenStep
  \/ RunBatch
  \/ HandleStopErosion
  \/ HandleResetErosion
  \/ ThenReset
  \/ Dispatch
  \/ OnInit(Draws)
  \/ \E recompute \in BOOLEAN : OnStep(recompute)
  \/ OnPause
  \/ OnReset(Draws)

AppSpec == Init /\ [][AppNext]_vars

\* C13: at most one request of the coordinator is unresolved at any time.
SingleOutstanding ==
  \A i, j \in DOMAIN calls :
    calls[i].state = "pending" /\ calls[j].state = "pending" => i = j

\* A request of the given type is sent to the worker in this step.
Sends(type) ==
  /\ Len(toWorker') = Len(toWorker) + 1
  /\ toWorker'[Len(toWorker')].type = type

\* C14: once the caller has paused the coordinator, it sends it no further
\* step request.
PauseStopsScheduling ==
  [][Sends("step") => \A i \in DOMAIN calls : calls[i].type # "pause"]_vars

\* C15: the array the caller passes to init or reset is one it has not
\* transferred into the worker before.
NoReuseAfterTransfer ==
  [][(Len(calls') = Len(calls) + 1 /\ calls'[Len(calls')].type \in {"init", "reset"})
       => buffers[app.original].side = "main"]_vars

----------------------------------------------------------------------------
(* PauseSpec: pause(), resume() and stepDroplets called on one engine *)

\* simulator.pause() and simulator.resume()
EnginePause ==
  /\ simulator' = Pause(simulator)
  /\ lastCall' = [method |-> "pause"]
  /\ UNCHANGED <<toWorker, toMain, calls, listeners, buffers, engineBuf, app>>

EngineResume ==
  /\ simulator' = Resume(simulator)
  /\ lastCall' = [method |-> "resume"]
  /\ UNCHANGED <<toWorker, toMain, calls, listeners, buffers, engineBuf, app>>

PauseNext ==
  \/ EnginePause
  \/ EngineResume
  \/ \E batchSize \in 0..MaxBatch, recompute \in BOOLEAN : EngineStep(batchSize, recompute)

PauseSpec == TermInit /\ [][PauseNext]_vars

\* The engines a and b differ in the activity flag at most.
SameButFlag(a, b) ==
  \A k \in DOMAIN a : k # "dropletsActive" => a[k] = b[k]

\* C16: pause() and resume() leave every field of the engine but the
\* activity flag as it was, and a stepDroplets call leaves the engine as the
\* same call on the active engine does, whatever the flag.
PauseTogglesFlagOnly ==
  [][/\ lastCall'.method \in {"pause", "resume"} => SameButFlag(simulator', simulator)
     /\ lastCall'.method = "pause" => simulator'.dropletsActive = "false"
     /\ lastCall'.method = "resume" => simulator'.dropletsActive = "true"
     /\ lastCall'.method = "stepDroplets" =>
          /\ simulator'.dropletsActive = simulator.dropletsActive
          /\ \E recompute \in BOOLEAN :
               SameButFlag(simulator', StepDroplets(Resume(simulator), lastCall'.batchSize,
                                                    recompute).sim)]_vars

\* A stepDroplets call on the paused engine has aged a droplet.
SteppedWhilePaused ==
  /\ lastCall.method = "stepDroplets"
  /\ simulator.dropletsActive = "false"
  /\ \E i \in DOMAIN simulator.droplets : simulator.droplets[i].lifetime > 0

\* C28: death is permanent within a run: a droplet whose alive flag is false
\* keeps its place in the pool with the flag false over every stepDroplets,
\* pause and resume call.
DeathPermanent ==
  [][\A i \in DOMAIN simulator.droplets :
       ~simulator.droplets[i].alive =>
         /\ i \in DOMAIN simulator'.droplets
         /\ ~simulator'.droplets[i].alive]_vars

\* resume() was called on an engine that holds a dead droplet.
ResumedWithDead ==
  /\ lastCall.method = "resume"
  /\ \E i \in DOMAIN simulator.droplets :
       ~simulator.droplets[i].alive /\ simulator.droplets[i].lifetime > 0

----------------------------------------------------------------------------
(* reset(heightMap) against construction *)

\* The worker takes a 'reset' message while it holds an engine.
ResetTaken ==
  /\ toWorker # << >>
  /\ Head(toWorker).type = "reset"
  /\ toWorker' = Tail(toWorker)
  /\ ~simulator.null

\* _createDroplet's values, the random position and sizes apart
FreshDroplet(sim, d) ==
  /\ d.alive
  /\ d.lifetime = 0
  /\ d.sediment = 0
  /\ d.water = sim.params.initialVolume
  /\ d.speed = sim.params.initialSpeed
  /\ d.dx = 0
  /\ d.dy = 0

\* The engine sim is as one newly constructed on heightMap with sim's parameters.
AsConstructed(sim, heightMap) ==
  /\ sim.heightMap = heightMap
  /\ \A i \in DOMAIN sim.droplets : FreshDroplet(sim, sim.droplets[i])
  /\ \A i \in DOMAIN sim.flowMap : sim.flowMap[i] = 0
  /\ \A i \in DOMAIN sim.talusMap : sim.talusMap[i] = 0
  /\ \A i \in DOMAIN sim.microDetailMap : sim.microDetailMap[i] = 0
  /\ sim.slopeMap = Allocate(sim.width, sim.height, heightMap, sim.params).slopeMap
  /\ sim.microDetailNoise = Allocate(sim.width, sim.height, heightMap, sim.params).microDetailNoise

\* C17: after the worker has handled reset(h) on its engine, whatever state
\* the engine was in, the height field is h, every droplet of the pool is
\* fresh, FlowMap, TalusMap and MicroDetailMap are zero, and SlopeMap and
\* MicroDetailNoise are those of construction on h with the same parameters.
ResetEqualsConstruction ==
  [][ResetTaken => AsConstructed(simulator', buffers[Head(toWorker).heightMap].data)]_vars

----------------------------------------------------------------------------
(* BatchSpec: step calls of every batch size up to the pool's on one engine *)

BatchNext ==
  \E batchSize \in 0..MaxDroplets, recompute \in BOOLEAN : EngineStep(batchSize, recompute)

BatchSpec == TermInit /\ [][BatchNext]_vars

\* The droplets of the pool that are alive.
Alive(sim) == {i \in DOMAIN sim.droplets : sim.droplets[i].alive}

\* The droplets the step now taken has changed.
Changed == {i \in DOMAIN simulator.droplets : simulator'.droplets[i] # simulator.droplets[i]}

\* The alive droplets that fewer than batchSize alive droplets precede.
Selected(sim, batchSize) ==
  {j \in Alive(sim) : Cardinality({k \in Alive(sim) : k < j}) < batchSize}

\* C18: a stepDroplets call leaves the pool at its size and leaves a droplet
\* that was dead when the call began as it was; dead droplets take no place
\* of the batch: a call of batchSize >= 1 that returns has changed the first
\* alive droplet of the pool, however many dead droplets precede it.
DeadSkipped ==
  [][/\ Len(simulator'.droplets) = Len(simulator.droplets)
     /\ \A i \in DOMAIN simulator.droplets :
          ~simulator.droplets[i].alive => simulator'.droplets[i] = simulator.droplets[i]
     /\ lastCall'.batchSize >= 1 /\ ~lastCall'.threw =>
          \A j \in Alive(simulator) :
            (\A k \in 1..(j - 1) : ~simulator.droplets[k].alive) => j \in Changed]_vars

\* A call of batchSize 1 has advanced the second droplet past the first,
\* which is dead.
SteppedPastDead ==
  /\ lastCall.method = "stepDroplets"
  /\ lastCall.batchSize = 1
  /\ Len(simulator.droplets) = 2
  /\ ~simulator.droplets[1].alive
  /\ simulator.droplets[2].lifetime > simulator.droplets[1].lifetime

\* Batch selection of the calls that return: such a call has processed
\* exactly the first min(batchSize, number alive) alive droplets in pool
\* order, those that fewer than batchSize alive droplets precede; a call
\* that raises has processed droplets among these only.
BatchSelection ==
  [][/\ Cardinality(Selected(simulator, lastCall'.batchSize))
          = Min(lastCall'.batchSize, Cardinality(Alive(simulator)))
     /\ Changed \subseteq Selected(simulator, lastCall'.batchSize)
     /\ ~lastCall'.threw => Changed = Selected(simulator, lastCall'.batchSize)]_vars

\* C19: every stepDroplets(batchSize) call has processed exactly the first
\* min(batchSize, number alive) alive droplets in pool order.
BatchSelectionAlways ==
  [][Changed = Selected(simulator, lastCall'.batchSize)]_vars

\* A call of batchSize 1 on a pool of two alive droplets returned, having
\* aged the first and left the second fresh.
FirstOfTwoStepped ==
  /\ lastCall.method = "stepDroplets"
  /\ lastCall.batchSize = 1
  /\ ~lastCall.threw
  /\ Len(simulator.droplets) = 2
  /\ simulator.droplets[1].lifetime = 1
  /\ simulator.droplets[2].alive
  /\ simulator.droplets[2].lifetime = 0

----------------------------------------------------------------------------
(* SubStepSpec: the passes of the sub-step loop on grids of many sizes *)

\* Widths and heights of the grids; 500 x 500 is the size resolutionScale
\* is 1 at, 1000 x 1000 the size it is 2 at.
Sides == {1, 4, 250, 400, 500, 501, 512, 600, 800, 1000, 1024, 2000}

\* The passes the sub-step loop makes for a selected droplet of a
\* width x height engine.
CountSubSteps(width, height) ==
  /\ lastCall' = [method |-> "subSteps", width |-> width, height |-> height,
                  steps |-> SubStepCount([width |-> width, height |-> height])]
  /\ UNCHANGED <<simulator, toWorker, toMain, calls, listeners, buffers, engineBuf, app>>

SubStepNext == \E width \in Sides, height \in Sides : CountSubSteps(width, height)

SubStepSpec == EngineInit({NoSimulator}) /\ [][SubStepNext]_vars

\* C20: the sub-step loop of a selected droplet makes ceil(min(resolutionScale,
\* 2.0)) passes: 1 on a grid of at most 250000 cells, 2 on every larger grid.
SubStepsRoundedUp ==
  lastCall.method = "subSteps" =>
    lastCall.steps = IF lastCall.width * lastCall.height <= 250000 THEN 1 ELSE 2

\* C20 as stated: the sub-step loop of a selected droplet makes at most
\* max(1, floor(min(resolutionScale, 2.0))) passes.
SubStepsRoundedDown ==
  lastCall.method = "subSteps" =>
    lastCall.steps <= Max(1, Floor(Min(ResolutionScale(lastCall), 2 * Unit)))

\* The loop made 2 passes on a 512 x 512 grid, whose resolutionScale is 1.024.
TwoPassesBelowTwo ==
  /\ lastCall.method = "subSteps"
  /\ lastCall.width = 512
  /\ lastCall.height = 512
  /\ lastCall.steps = 2

----------------------------------------------------------------------------
(* PassSpec: one stepDroplets(1) call on engines of a grid of more than    *)
(* 250000 cells, on which the sub-step loop makes two passes.  The state   *)
(* keeps the droplet as created, after the first pass and after the call.  *)

LargeGrid == [width |-> 126, height |-> 2000]

\* Parameters of the large engines: the droplet never dies of its volume.
LargeOverlay ==
  [useMicroDetails |-> FALSE, useTalusFormation |-> FALSE, useMultiScale |-> FALSE,
   minVolume |-> 0]

\* An engine whose droplets die of age at the end of their first pass, and
\* one whose droplets outlive the call.
AgedEngine ==
  Constructor(LargeGrid.width, LargeGrid.height,
              FieldOn(LargeGrid.width, LargeGrid.height, "slope"),
              Assign(LargeOverlay, [maxDropletLifetime |-> 0]))
LargeEngine ==
  Constructor(LargeGrid.width, LargeGrid.height,
              FieldOn(LargeGrid.width, LargeGrid.height, "slope"),
              Assign(LargeOverlay, [maxDropletLifetime |-> 3]))

\* What the passes after the first changed of the maps.
LaterPasses(first, last) ==
  [heightMap |-> last.heightMap # first.heightMap, flowMap |-> last.flowMap # first.flowMap]

\* the first stepDroplets(1) on engine, whose pool is one droplet created
\* from rnd
RunPasses(engine, rnd) ==
  /\ lastCall = NoCall
  /\ lastCall' = [method |-> "passes",
                  maxDropletLifetime |-> engine.params.maxDropletLifetime,
                  created |-> WithPool(engine, <<rnd>>).droplets[1],
                  first |-> SubStep(WithPool(engine, <<rnd>>), 1).sim.droplets[1],
                  last |-> StepDroplets(WithPool(engine, <<rnd>>), 1, FALSE).sim.droplets[1],
                  later |-> LaterPasses(SubStep(WithPool(engine, <<rnd>>), 1).sim,
                                        StepDroplets(WithPool(engine, <<rnd>>), 1, FALSE).sim)]
  /\ UNCHANGED <<simulator, toWorker, toMain, calls, listeners, buffers, engineBuf, app>>

PassNext ==
  \E engine \in {AgedEngine, LargeEngine},
     x \in {0, 250000, 500000, 750000, 980000, 985000, 990000, 999999},
     y \in {1000, 2000, 3000, 4000, 5000, 6000, 7000, 8000} :
    RunPasses(engine, Rnd(x, y, 0))

PassSpec == EngineInit({NoSimulator}) /\ [][PassNext]_vars

\* The droplet d is outside the margin whose violation kills it.
OutsideMargin(width, height, d) ==
  d.x < Unit \/ d.x > (width - 2) * Unit \/ d.y < Unit \/ d.y > (height - 2) * Unit

\* C21: a droplet that the first pass of a call moved outside the interior
\* margin is dead after the call, at the position and with the velocity the
\* first pass left it with.
KillOnExitStopsSubSteps ==
  lastCall.method = "passes"
    /\ ~OutsideMargin(LargeGrid.width, LargeGrid.height, lastCall.created)
    /\ OutsideMargin(LargeGrid.width, LargeGrid.height, lastCall.first)
  => /\ ~lastCall.first.alive
     /\ ~lastCall.last.alive
     /\ lastCall.last.x = lastCall.first.x
     /\ lastCall.last.y = lastCall.first.y
     /\ lastCall.last.dx = lastCall.first.dx
     /\ lastCall.last.dy = lastCall.first.dy

\* C29: no mutation after death: when the first pass of a call killed a
\* droplet at its end (the droplet was created inside the margin), the later
\* passes of the call leave the height map and the flow map as the first
\* pass left them, and the droplet's sediment, water and lifetime as they
\* were at death.
NoPostDeathMutation ==
  lastCall.method = "passes"
    /\ ~OutsideMargin(LargeGrid.width, LargeGrid.height, lastCall.created)
    /\ ~lastCall.first.alive
  => /\ lastCall.last.sediment = lastCall.first.sediment
     /\ lastCall.last.water = lastCall.first.water
     /\ lastCall.last.lifetime = lastCall.first.lifetime
     /\ ~lastCall.later.heightMap
     /\ ~lastCall.later.flowMap

\* C22: every alive droplet of the pool, one just created at init or reset
\* included, is inside the interior margin: 1 <= x <= width - 2 and
\* 1 <= y <= height - 2.
InteriorPositions ==
  ~simulator.null =>
    \A i \in DOMAIN simulator.droplets :
      simulator.droplets[i].alive =>
        ~OutsideMargin(simulator.width, simulator.height, simulator.droplets[i])

----------------------------------------------------------------------------
(* The auxiliary maps over the step calls of BatchSpec *)

\* Water and speed of every droplet and flowAccumulationFactor are >= 0.
NonNegativeFlux(sim) ==
  /\ sim.params.flowAccumulationFactor >= 0
  /\ \A i \in DOMAIN sim.droplets : sim.droplets[i].water >= 0 /\ sim.droplets[i].speed >= 0

\* C23: with water, speed and flowAccumulationFactor non-negative, no
\* stepDroplets call lowers a cell of FlowMap.
FlowMapMonotone ==
  [][NonNegativeFlux(simulator) =>
       \A c \in DOMAIN simulator.flowMap : simulator'.flowMap[c] >= simulator.flowMap[c]]_vars

\* Step calls have accumulated flow in a cell.
FlowAccumulated ==
  /\ lastCall.method = "stepDroplets"
  /\ NonNegativeFlux(simulator)
  /\ \E c \in DOMAIN simulator.flowMap : simulator.flowMap[c] > 0

----------------------------------------------------------------------------
(* ClampSpec: _updateTalusFormation called, as stepDroplets calls it, at a  *)
(* position inside the margin with an eroded or a deposited amount          *)

MaxUpdates == 2      \* _updateTalusFormation calls per engine

\* Engines on the flat and the sloping field whose talus range is the
\* default one (25 to 45 degrees, the slope of the sloping field outside
\* it), a wider one (the slope inside it) and the single angle 0 (the
\* slope of the flat field), and engines without talus formation.
ClampInit ==
  EngineInit({Constructor(Grid.width, Grid.height, field, Assign(StrongOverlay, overlay)) :
                field \in {FlatField, SlopeField},
                overlay \in {[talusMaxSlope |-> 45 * Unit],
                             [talusMaxSlope |-> 70 * Unit],
                             [talusMinSlope |-> 0, talusMaxSlope |-> 0],
                             [useTalusFormation |-> FALSE]}})

\* this._updateTalusFormation(x, y, erosion, deposition)
UpdateTalus(x, y, erosion, deposition) ==
  /\ IF lastCall.method = "none" THEN TRUE ELSE lastCall.n < MaxUpdates
  /\ simulator' = UpdateTalusFormation(simulator, x, y, erosion, deposition)
  /\ lastCall' = [method |-> "_updateTalusFormation", x |-> x, y |-> y,
                  erosion |-> erosion, deposition |-> deposition,
                  n |-> IF lastCall.method = "none" THEN 1 ELSE lastCall.n + 1]
  /\ UNCHANGED <<toWorker, toMain, calls, listeners, buffers, engineBuf, app>>

ClampNext ==
  \E x \in {1500000, 2 * Unit}, y \in {1500000, 2 * Unit}, amount \in {1000, 10000} :
    \/ UpdateTalus(x, y, amount, 0)
    \/ UpdateTalus(x, y, 0, amount)

ClampSpec == ClampInit /\ [][ClampNext]_vars

\* The talus value v lies between 0 and the ceiling.
Clamped(v, talusMaxHeight) == v # NaN /\ v >= 0 /\ v <= talusMaxHeight

\* The cached slope of the cell under (x, y) is outside the talus range.
OutsideRange(sim, x, y) ==
  \/ sim.slopeMap[ToIndex(sim.width, Floor(x), Floor(y))] < sim.params.talusMinSlope
  \/ sim.slopeMap[ToIndex(sim.width, Floor(x), Floor(y))] > sim.params.talusMaxSlope

\* _updateTalusFormation leaves the engine as it was where talus formation
\* is disabled or the cached slope of the cell is outside the talus range.
NoTalusOutsideRange ==
  ~simulator.params.useTalusFormation \/ OutsideRange(simulator, lastCall'.x, lastCall'.y)
    => simulator' = simulator

\* C24: with talus formation enabled, talusMaxHeight >= 0 and talusMinSlope
\* below talusMaxSlope, every TalusMap cell is between 0 and talusMaxHeight
\* after every _updateTalusFormation call, and the call changes nothing
\* where the cached slope of the cell is outside the range or talus
\* formation is disabled.
TalusClamped ==
  [][/\ simulator.params.useTalusFormation
          /\ simulator.params.talusMaxHeight >= 0
          /\ simulator.params.talusMinSlope < simulator.params.talusMaxSlope
        => \A c \in DOMAIN simulator'.talusMap :
             Clamped(simulator'.talusMap[c], simulator.params.talusMaxHeight)
     /\ NoTalusOutsideRange]_vars

\* C24 as stated: with talus formation enabled and talusMaxHeight >= 0,
\* every TalusMap cell is between 0 and talusMaxHeight after every
\* _updateTalusFormation call, and the call changes nothing outside the
\* range or with talus formation disabled.
TalusClampedAnyRange ==
  [][/\ simulator.params.useTalusFormation /\ simulator.params.talusMaxHeight >= 0
        => \A c \in DOMAIN simulator'.talusMap :
             Clamped(simulator'.talusMap[c], simulator.params.talusMaxHeight)
     /\ NoTalusOutsideRange]_vars

\* A cell was held at the ceiling and another call lowered it from there.
TalusCeilingReached ==
  /\ lastCall.method = "_updateTalusFormation"
  /\ simulator.params.talusMinSlope < simulator.params.talusMaxSlope
  /\ \E c \in DOMAIN simulator.talusMap : simulator.talusMap[c] = simulator.params.talusMaxHeight
  /\ \E c \in DOMAIN simulator.talusMap :
       simulator.talusMap[c] > 0 /\ simulator.talusMap[c] < simulator.params.talusMaxHeight

\* The talus value after is not below the value before; no comparison with
\* NaN tells a decrease.
NotLowered(before, after) == after = NaN \/ before = NaN \/ after >= before

\* C25: a _updateTalusFormation call made for an eroded amount lowers no
\* TalusMap cell, and one made for a deposited amount raises none: it
\* lowers the cell under the droplet, down to 0 at most.
TalusFollowsExchange ==
  [][/\ lastCall'.deposition = 0 =>
          \A c \in DOMAIN simulator.talusMap :
            NotLowered(simulator.talusMap[c], simulator'.talusMap[c])
     /\ lastCall'.erosion = 0 =>
          \A c \in DOMAIN simulator.talusMap :
            NotLowered(simulator'.talusMap[c], simulator.talusMap[c])]_vars

\* C25 as stated: no _updateTalusFormation call, made for an eroded or for
\* a deposited amount, lowers a TalusMap cell.
TalusMonotone ==
  [][\A c \in DOMAIN simulator.talusMap :
       NotLowered(simulator.talusMap[c], simulator'.talusMap[c])]_vars

\* A call made for a deposited amount has left a cell between 0 and the
\* ceiling.
TalusLowered ==
  /\ lastCall.method = "_updateTalusFormation"
  /\ lastCall.deposition > 0
  /\ \E c \in DOMAIN simulator.talusMap :
       /\ simulator.talusMap[c] # NaN
       /\ simulator.talusMap[c] > 0
       /\ simulator.talusMap[c] < simulator.params.talusMaxHeight

\* C26: whatever the feature flags of the engine, no stepDroplets call on an
\* engine with a pool raises: every map the call reads or writes was
\* allocated by the constructor.
StepFindsItsMaps ==
  lastCall.method = "stepDroplets" /\ simulator.hasDroplets => ~lastCall.threw

----------------------------------------------------------------------------
(* LoopSpec: App's Start and Stop buttons pressed again and again.  Every   *)
(* handleStartErosion makes a coordinator and a worker of its own, which    *)
(* only the loop it starts talks to; here the worker is known by what its   *)
(* promises settle to.  app.loops[l] is the position of the l-th loop       *)
(* started, app.hm the loop that wrote heightMapRef.current.hm last.        *)

MaxLoops == 3        \* handleStartErosion calls per run
MaxSteps == 2        \* step calls per loop

LoopInit ==
  /\ simulator = NoSimulator
  /\ toWorker = << >>
  /\ toMain = << >>
  /\ calls = << >>
  /\ listeners = {}
  /\ buffers = << >>
  /\ engineBuf = 0
  /\ lastCall = NoCall
  /\ app = Assign(NoApp, [loops |-> << >>, hm |-> 0])

\* handleStartErosion, which the panel offers while erosionRunning is false:
\* worker.init(...) transfers heightMapRef.current.original, and is rejected
\* at once when that array was transferred before.
StartLoop ==
  /\ ~app.erosionRunning
  /\ app.original # 0
  /\ Len(app.loops) < MaxLoops
  /\ buffers' = [buffers EXCEPT ![app.original].side = "worker"]
  /\ app' = [app EXCEPT !.worker = TRUE, !.erosionRunning = TRUE,
                        !.loops = Append(@, [state |-> IF buffers[app.original].side = "main"
                                                       THEN "init" ELSE "rejected",
                                             steps |-> 0])]
  /\ UNCHANGED <<simulator, toWorker, toMain, calls, listeners, engineBuf, lastCall>>

\* then of worker.init(...): runBatch() calls worker.step(erosionBatchSize)
InitResolved(l) ==
  /\ app.loops[l].state = "init"
  /\ app' = [app EXCEPT !.loops[l].state = "step", !.loops[l].steps = 1]
  /\ UNCHANGED <<simulator, toWorker, toMain, calls, listeners, buffers, engineBuf, lastCall>>

\* catch of worker.init(...): setErosionRunning(false)
InitRejected(l) ==
  /\ app.loops[l].state = "rejected"
  /\ app' = [app EXCEPT !.loops[l].state = "done", !.erosionRunning = FALSE]
  /\ UNCHANGED <<simulator, toWorker, toMain, calls, listeners, buffers, engineBuf, lastCall>>

\* then of worker.step(...): the loop stores the height map received, and
\* sets the timer while alive
StepResolved(l, alive) ==
  /\ app.loops[l].state = "step"
  /\ app' = [app EXCEPT !.hm = l,
                        !.loops[l].state = IF alive THEN "timer" ELSE "done",
                        !.erosionRunning = IF alive THEN @ ELSE FALSE]
  /\ UNCHANGED <<simulator, toWorker, toMain, calls, listeners, buffers, engineBuf, lastCall>>

\* The timer set by setTimeout(runBatch, 0) fires: worker.step(erosionBatchSize)
TimerFires(l) ==
  /\ app.loops[l].state = "timer"
  /\ app.loops[l].steps < MaxSteps
  /\ app' = [app EXCEPT !.loops[l].state = "step", !.loops[l].steps = @ + 1]
  /\ UNCHANGED <<simulator, toWorker, toMain, calls, listeners, buffers, engineBuf, lastCall>>

\* handleStopErosion, which the panel offers while erosionRunning is true:
\* pause() on the last worker made
StopLoop ==
  /\ app.erosionRunning
  /\ app.worker
  /\ app' = [app EXCEPT !.erosionRunning = FALSE]
  /\ UNCHANGED <<simulator, toWorker, toMain, calls, listeners, buffers, engineBuf, lastCall>>

LoopNext ==
  \/ HandleGenerateHeightmap
  \/ StartLoop
  \/ StopLoop
  \/ \E l \in DOMAIN app.loops : InitResolved(l)
  \/ \E l \in DOMAIN app.loops : InitRejected(l)
  \/ \E l \in DOMAIN app.loops, alive \in BOOLEAN : StepResolved(l, alive)
  \/ \E l \in DOMAIN app.loops : TimerFires(l)

LoopSpec == LoopInit /\ [][LoopNext]_vars

\* The loops that have a step request out or a timer set for the next one.
Scheduling == {l \in DOMAIN app.loops : app.loops[l].state \in {"step", "timer"}}

\* C27: at most one batching loop is scheduling step requests in every
\* reachable state of the application.
SingleLoop == Cardinality(Scheduling) <= 1


----------------------------------------------------------------------------
(* DebounceSpec: the number input of one ParameterControl *)

MaxInputs == 3
Tick == 50
MaxTime == 200
Delay == 100

\* A prop that was not passed, and one that was.
Undefined == [defined |-> FALSE]
Defined(v) == [defined |-> TRUE, value |-> v]

\* Texts of the input element, as sequences of characters.
InputTexts ==
  {<< >>, <<"7">>, <<"4", "2">>, <<"1", "5", "0">>, <<"-", "3">>, <<"-">>, <<"1", "e">>}

Digits == [c \in {"0", "1", "2", "3", "4", "5", "6", "7", "8", "9"} |->
             CASE c = "0" -> 0 [] c = "1" -> 1 [] c = "2" -> 2 [] c = "3" -> 3
               [] c = "4" -> 4 [] c = "5" -> 5 [] c = "6" -> 6 [] c = "7" -> 7
               [] c = "8" -> 8 [] c = "9" -> 9]

RECURSIVE Decimal(_, _)
Decimal(text, acc) ==
  IF text = << >> THEN acc
  ELSE IF Head(text) \notin DOMAIN Digits THEN NaN
  ELSE Decimal(Tail(text), 10 * acc + Digits[Head(text)])

\* Number(newValue) on a text of InputTexts
Number(text) ==
  IF text = << >> THEN 0
  ELSE IF Head(text) = "-"
       THEN IF Tail(text) = << >> \/ Decimal(Tail(text), 0) = NaN THEN NaN
            ELSE 0 - Decimal(Tail(text), 0)
  ELSE Decimal(text, 0)

\* Math.max(constrainedValue, Number(min)) then Math.min(.., Number(max)),
\* each applied when its prop is defined
Constrain(numValue, min, max) ==
  LET lower == IF min.defined THEN Max(numValue, min.value) ELSE numValue
  IN  IF max.defined THEN Min(lower, max.value) ELSE lower

\* A mounted control: no input yet, no timer, onChange never called.
DebounceInit ==
  /\ simulator = NoSimulator
  /\ toWorker = << >>
  /\ toMain = << >>
  /\ calls = << >>
  /\ listeners = {}
  /\ buffers = << >>
  /\ engineBuf = 0
  /\ lastCall = NoCall
  /\ \E min \in {Undefined, Defined(0)}, max \in {Undefined, Defined(100)} :
       app = Assign(NoApp, [min |-> min, max |-> max, localValue |-> << >>, now |-> 0,
                            typed |-> 0, timers |-> << >>, onChange |-> << >>])

\* handleNumberInput(e) with e.target.value = newValue; the function it
\* returns is dropped by the caller of the event handler.
HandleNumberInput(newValue) ==
  /\ app.typed < MaxInputs
  /\ app' = IF newValue = << >> \/ Number(newValue) = NaN
            THEN [app EXCEPT !.localValue = newValue, !.typed = @ + 1]
            ELSE [app EXCEPT !.localValue = newValue, !.typed = @ + 1,
                             !.timers = Append(@, [at |-> app.now + Delay,
                                                   constrainedValue |->
                                                     Constrain(Number(newValue), app.min, app.max)])]
  /\ lastCall' = [method |-> "handleNumberInput", newValue |-> newValue, at |-> app.now]
  /\ UNCHANGED <<simulator, toWorker, toMain, calls, listeners, buffers, engineBuf>>

\* The callback of setTimeout(() => onChange(constrainedValue), 100)
TimeoutFires ==
  /\ app.timers # << >>
  /\ Head(app.timers).at <= app.now
  /\ app' = [app EXCEPT !.timers = Tail(@),
                        !.onChange = Append(@, Head(app.timers).constrainedValue)]
  /\ lastCall' = [method |-> "onChange", at |-> app.now]
  /\ UNCHANGED <<simulator, toWorker, toMain, calls, listeners, buffers, engineBuf>>

\* Time passes while no timer is due.
TimePasses ==
  /\ app.now + Tick <= MaxTime
  /\ IF app.timers = << >> THEN TRUE ELSE Head(app.timers).at > app.now
  /\ app' = [app EXCEPT !.now = @ + Tick]
  /\ UNCHANGED <<simulator, toWorker, toMain, calls, listeners, buffers, engineBuf, lastCall>>

DebounceNext ==
  \/ \E newValue \in InputTexts : HandleNumberInput(newValue)
  \/ TimeoutFires
  \/ TimePasses

DebounceSpec == DebounceInit /\ [][DebounceNext]_vars

\* C30: a valid input cancels the call an earlier input left pending: when
\* handleNumberInput has taken a valid number, the one pending onChange call
\* is the one of that input, so that inputs less than 100 ms apart end in a
\* single call, with the last value clamped to [min, max].
DebouncedInput ==
  lastCall.method = "handleNumberInput"
    /\ lastCall.newValue # << >> /\ Number(lastCall.newValue) # NaN
  => /\ Len(app.timers) = 1
     /\ app.timers[1].constrainedValue = Constrain(Number(lastCall.newValue), app.min, app.max)
     /\ app.timers[1].at = lastCall.at + Delay
====
